CONSTANTS
  viber = viber
  whatsapp = whatsapp
  sms = sms
  NoMid = NoMid
  Workers = {w1}
  Chain <- ViberThenSms
  Deployments = {{}}
  MaxMessages = 1
  MaxResends = 0
SPECIFICATION Spec
INVARIANTS StartIsReported
CHECK_DEADLOCK FALSE

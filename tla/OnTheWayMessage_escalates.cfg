CONSTANTS
  viber = viber
  whatsapp = whatsapp
  sms = sms
  NoMid = NoMid
  Workers = {w1, w2}
  Chain <- ViberWhatsAppSms
  Deployments = {{}, {viber, whatsapp, sms}}
  MaxMessages = 2
  MaxResends = 0
SPECIFICATION FairSpec
PROPERTIES EscalatesToTheEnd
CHECK_DEADLOCK FALSE

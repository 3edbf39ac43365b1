CONSTANTS
  viber = viber
  whatsapp = whatsapp
  sms = sms
  NoMid = NoMid
  Workers = {w1, w2}
  Chain <- ViberThenSms
  Deployments = {{viber, sms}}
  MaxMessages = 2
  MaxResends = 1
SPECIFICATION Spec
SYMMETRY WorkerSymmetry
INVARIANTS IInv StatusIsOfCurrentMessage ArrivalIsReal OncePerChannel StartIsReported ArrivalIsReported
PROPERTIES NeverLowered
CHECK_DEADLOCK FALSE

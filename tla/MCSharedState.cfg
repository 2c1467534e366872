SPECIFICATION FairSpec
CONSTANTS
  c1 = c1
  c2 = c2
  e1 = e1
  e2 = e2
  e3 = e3
  Callers = {c1, c2}
  Names = {"aes-256-gcm", "aes-128-cbc"}
  Ciphers = {"DESCBC", "AES256GCM", "AES128CBC"}
  CipherOf <- Switch
  Default = "DESCBC"
  Encoders = {e1, e2, e3}
  Nobody = Nobody
PROPERTIES
  AllReturn
  AsIfAlone
CHECK_DEADLOCK FALSE

SPECIFICATION Spec
CONSTANTS
  p1 = p1
  p2 = p2
  p3 = p3
  t1 = t1
  t2 = t2
  Peers = {p1, p2, p3}
  Txs = {t1, t2}
  Times = {1, 2}
  Preferences <- Prefs
  HighBit = 3
  Salted <- Hashes
INVARIANTS SanityCheck
PROPERTIES ImplementsRules Returns

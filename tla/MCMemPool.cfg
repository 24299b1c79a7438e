SPECIFICATION Spec
CONSTANTS
  Blocks = 10
  Mbox = {m1, m2, m3, m4}
  recv_type = recv_type
  recv_cont = recv_cont
  Small = {m3, m4}
  Need <- MCNeed
INVARIANTS TypeOK MapExact
PROPERTY Atomic

\* One request stream beside the control stream; the packet bound stops the
\* system; or a client with three addresses, whose datagrams are bounded.
CONSTANTS
  c = c
  r1 = r1
  Absent = Absent
  SendStreams <- OneRequest
  Control = c
  MaxBytes = 3
  Chunk = 2
  Overhead = 1
  InitialWindow = 5
  MinimumWindow = 4
  PacketThreshold = 2
  MaxPackets = 4
  MaxCredit = 2
  MaxReceived = 2
  a1 = a1
  a2 = a2
  a3 = a3
  Addresses = {a1, a2, a3}
  NoAddress = NoAddress
  Challenges = {1, 2}
  MaxUpward = 3
  MaxLinks = 2
SPECIFICATION HalfSpec
SYMMETRY Elsewhere
INVARIANTS QueueSound RecoverySound AddressProved
CHECK_DEADLOCK FALSE

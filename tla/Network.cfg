SPECIFICATION Spec
CONSTANTS
  NUM_TX_DESC = 3
  ARP_MAX = 2
  NSockets = 2
  Proc = {p1, p2}
  Ip = {10, 20}
  Local = {10, 1}
  Gateway = 1
  DnsServer = 88
  NtpServer = 129
  Limited = 65535
  MyIp = 100
  Interface <- Interfaces
  Port = {80}
  EchoHost = {20}
  EchoId <- EchoIds
  MaxFrames = 4
  NtpEra = 25567
INVARIANTS RingInOrder NextHopAnswered SumsVerify DataReachesPeer
CONSTRAINT NotOverrun
SYMMETRY Interchangeable

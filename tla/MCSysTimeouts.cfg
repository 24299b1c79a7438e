SPECIFICATION FairSpec
CONSTANTS
  tcpip_tcp_timer = tcpip_tcp_timer
  ip_reass_timer = ip_reass_timer
  arp_timer = arp_timer
  TCP_TMR_INTERVAL = 4
  IP_TMR_INTERVAL = 7
  ARP_TMR_INTERVAL = 10
  MsPerSec = 3
  TicksPerSec = 1
  Word = 16
  MboxSize = 1
  MaxBusy = 1
INVARIANTS TypeOK TcpTimerKept
PROPERTIES Wheel TimersRun

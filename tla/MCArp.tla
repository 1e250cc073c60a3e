------------------------------- MODULE MCArp --------------------------------
EXTENDS Arp
AllHomes == [Ips -> Cells]
=============================================================================

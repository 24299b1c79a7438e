----------------------------- MODULE MCStartUp ------------------------------
(* Small instances of StartUp for TLC.  As in the gateway, one try takes    *)
(* more of the pool than it leaves (about 2330 of 3200 blocks there).       *)
EXTENDS StartUp, TLC

Eth == <<"DMARxDscrTab", "DMATxDscrTab", "Rx_Buff", "Tx_Buff">>
Lwip == <<"memp_memory", "ram_heap", "TCPIP_THREAD_TASK_STK", "LWIP_DHCP_TASK_STK">>
Sizes == Eth[1] :> 1 @@ Eth[2] :> 1 @@ Eth[3] :> 16 @@ Eth[4] :> 3
         @@ Lwip[1] :> 3 @@ Lwip[2] :> 3 @@ Lwip[3] :> 2 @@ Lwip[4] :> 1
=============================================================================

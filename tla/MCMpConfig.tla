------------------------------ MODULE MCMpConfig ----------------------------
(* A small instance of MpConfig for TLC: one field of each kind.             *)
EXTENDS MpConfig, TLC

MCChecksums == {"UDPChecksumOffloadIPv4"}
MCSegmentations == {"UsoIPv4"}
MCRevision == [f \in Fields \ {"UdpRsc"} |->
    CASE f \in Checksums -> 1 [] f \in {"RscIPv4", "RscIPv6"} -> 3 [] f \in Segmentations -> 5]

(* One parameter structure that offloads one direction of the checksum and   *)
(* turns on RSC for IPv6 only; one of revision 1 that turns the checksum off *)
(* and whose later members are not looked at; one that turns the others on,  *)
(* with a value for RscIPv6 that is none of those NDIS defines.              *)
Change(revision, checksum, rsc4, rsc6, uso) ==
    [f \in Fields \cup {"Revision"} |->
        CASE f = "Revision" -> revision
          [] f \in Checksums -> checksum
          [] f = "RscIPv4" -> rsc4
          [] f = "RscIPv6" -> rsc6
          [] f \in Segmentations -> uso
          [] OTHER -> "NoChange"]

MCParameters == {Change(5, "RxEnabledTxDisabled", "Disabled", "Enabled", "NoChange"),
                 Change(1, "TxRxDisabled", "Enabled", "Enabled", "Enabled"),
                 Change(5, "NoChange", "Enabled", "Undefined", "Enabled")}

(* Nothing configured; everything off; a value out of range. *)
MCRegistries == {[f \in {} |-> 0], [f \in Fields |-> 0], [f \in {"UdpRsc"} |-> 2]}

(* A table that names a processor twice in a row, comes back to it later,    *)
(* and has more processors than queues; one with fewer; and one with too     *)
(* many processors.                                                          *)
MCRssTables == {<<1, 1, 0, 1, 2>>, <<2>>, <<3, 2, 1, 0>>}

Symmetry == Permutations(Clients)
=============================================================================

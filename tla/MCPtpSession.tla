---------------------------- MODULE MCPtpSession ----------------------------
(* PtpSession with one or two servers.  Clock identities are 1 and 2; both *)
(* number their Syncs from 1, so sequence numbers collide.  Time advances  *)
(* by 2, so that half of it is not rounded away.                           *)
EXTENDS PtpSession

OneServer == {1}
TwoServers == {1, 2}

TwoStep == [s \in Server |-> {"TWO_STEP"}]
SameDomain == [s \in Server |-> 0]
OwnDomains == [s \in Server |-> s - 1]

OwnClocks == [s \in Server |-> IF s = 1 THEN 3 ELSE 0]

FirstLonger == [s \in Server |-> IF s = 1 THEN MaxSync ELSE 1]
AllSyncs == [s \in Server |-> MaxSync]
=============================================================================

------------------------------- MODULE MCClaim -------------------------------
(* Four runs on one directory, one of them on another host that mounts it.   *)
EXTENDS Claim, TLC

MCHost == "a" :> "box" @@ "b" :> "box" @@ "c" :> "box" @@ "d" :> "nas"
MCProcess == DOMAIN MCHost
==============================================================================

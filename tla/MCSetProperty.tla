---------------------------- MODULE MCSetProperty ----------------------------
(* One slot and one place to wait for two connections; a plain, a read-only *)
(* and a wide name, a long value, both protocol versions.                   *)
EXTENDS SetProperty

MCRequests ==
  {[name |-> "n",  value |-> "short", ver |-> 1],
   [name |-> "n",  value |-> "long",  ver |-> 2],
   [name |-> "wide", value |-> "short", ver |-> 1],
   [name |-> "ro", value |-> "short", ver |-> 2],
   [name |-> "ro", value |-> "long",  ver |-> 2]}
=============================================================================

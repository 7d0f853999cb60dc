----------------------------- MODULE MCWebBoot ------------------------------
(***************************************************************************)
(* WebBoot with two servers on two addresses and one rotation.             *)
(***************************************************************************)
EXTENDS WebBoot, TLC

CONSTANTS web1, web2, old, new, here, there

MCBindTo == web1 :> here @@ web2 :> there
MCFirst  == <<old>>
=============================================================================

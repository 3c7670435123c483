-------------------------- MODULE MCWechatGateway --------------------------
(* Two orders of one page for TLC. *)
EXTENDS WechatGateway

CONSTANTS o1, o2

\* Orders differ in their numbers only: the first that is generated is o1.
NamesInOrder == order[o2] # NULL => order[o1] # NULL
=============================================================================

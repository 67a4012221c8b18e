--------------------------- MODULE IntegrationMC ---------------------------
(***************************************************************************)
(* Three branches people may propose: two that change the same contract    *)
(* differently, and one that changes it as the first does.                 *)
(***************************************************************************)
EXTENDS Integration

CONSTANTS ann, bob, eve, mechanical, electrical, usb, v2, v2b, fit

MCPerson == {ann, bob, eve}
MCRole == {mechanical, electrical}
MCDraft ==
  {[author |-> ann, roles |-> {mechanical}, evidence |-> {}, proposes |-> {<<usb, v2>>}],
   [author |-> bob, roles |-> {electrical}, evidence |-> {fit}, proposes |-> {<<usb, v2>>}],
   [author |-> bob, roles |-> {mechanical}, evidence |-> {}, proposes |-> {<<usb, v2b>>}]}
=============================================================================

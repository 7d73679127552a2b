------------------------------- MODULE MCParts -------------------------------
(***************************************************************************)
(* The parts that share no state, side by side: a behaviour is one of one  *)
(* part, and the others stay as they begin.                                *)
(***************************************************************************)
EXTENDS Gate, Terminal, Transfers, Mirror, Keys, EscWatch, Gestures, Cards, Files, ReplayBuffer
CONSTANTS x, y

MCByte == {x, y}
MCTree == {<<>>, <<"d">>}
MCPayloads == {<<>>, <<x>>, <<y>>, <<x, y>>, <<y, x>>}

VARIABLE part

MCInit ==
  /\ part \in {"gate", "terminal", "transfers", "mirror", "keys", "esc", "gestures", "cards", "files", "replay"}
  /\ GInit /\ TInit /\ XInit /\ MInit /\ KInit /\ EInit /\ HInit /\ CardInit /\ FInit /\ RInit
  /\ part # "mirror" => termRows = Min(Heights)   \* a part that stands still begins in one way

Others(p) ==
  /\ p # "gate" => UNCHANGED gvars
  /\ p # "terminal" => UNCHANGED tvars
  /\ p # "transfers" => UNCHANGED xvars
  /\ p # "mirror" => UNCHANGED mvars
  /\ p # "keys" => UNCHANGED kvars
  /\ p # "esc" => UNCHANGED evars
  /\ p # "gestures" => UNCHANGED hvars
  /\ p # "cards" => UNCHANGED cardvars
  /\ p # "files" => UNCHANGED fvars
  /\ p # "replay" => UNCHANGED rvars
  /\ UNCHANGED part

MCNext ==
  \/ part = "gate" /\ GNext /\ Others("gate")
  \/ part = "terminal" /\ TNext /\ Others("terminal")
  \/ part = "transfers" /\ XNext /\ Others("transfers")
  \/ part = "mirror" /\ MNext /\ Others("mirror")
  \/ part = "keys" /\ KNext /\ Others("keys")
  \/ part = "esc" /\ ENext /\ Others("esc")
  \/ part = "gestures" /\ HNext /\ Others("gestures")
  \/ part = "cards" /\ CardNext /\ Others("cards")
  \/ part = "files" /\ FNext /\ Others("files")
  \/ part = "replay" /\ RNext /\ Others("replay")

MCVars == <<part, gvars, tvars, xvars, mvars, kvars, evars, hvars, cardvars, fvars, rvars>>
MCSpec == MCInit /\ [][MCNext]_MCVars
=============================================================================

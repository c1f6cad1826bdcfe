--------------------------- MODULE MCServerPatch ---------------------------
(* Executables of five bytes.  Two reviews of one release, one of another, *)
(* and drafts that must be refused: overlapping patches, a signature that  *)
(* stands at two places, and one whose result has it twice.                *)
EXTENDS ServerPatch

P(at, old, new) == [at |-> at, old |-> old, new |-> new]
Draft(original, patches) == [original |-> original, patches |-> patches]

MCByte == 0..3
MCOld == <<1, 2, 0, 3, 0>>
MCNew == <<0, 0, 1, 3, 2>>
MCUnknown == <<0, 0, 0, 1, 2>>

MCForeign == {MCOld, MCNew, MCUnknown}

MCDrafts ==
  {Draft(MCOld, <<P(1, <<1, 2>>, <<1, 3>>), P(4, <<3, 0>>, <<2, 0>>)>>),
   Draft(MCOld, <<P(2, <<2, 0>>, <<2, 1>>)>>),
   Draft(MCNew, <<P(1, <<0, 0, 1>>, <<0, 0, 3>>)>>),
   Draft(MCOld, <<P(1, <<1, 2, 0>>, <<1, 3, 0>>), P(2, <<2, 0>>, <<3, 0>>)>>),
   Draft(MCOld, <<P(3, <<0>>, <<1>>)>>),
   Draft(MCNew, <<P(5, <<2>>, <<1>>)>>)}
=============================================================================

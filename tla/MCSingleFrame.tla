---------------------------- MODULE MCSingleFrame ----------------------------
(***************************************************************************)
(* SingleFrame for TLC: two ordinary windows, so that one can take the     *)
(* place of the other, and one for extension development.                  *)
(***************************************************************************)
EXTENDS SingleFrame

CONSTANTS w1, w2, u

MCWindow    == {w1, w2, u}
MCUnmanaged == {u}
MCWithAux   == {w1}
=============================================================================

----------------------------- MODULE MCUiMirror -----------------------------
(* Small instance of UiMirror: up to three tabs and two server lives.  Three *)
(* plain tabs just fit, a long one takes the room of two.                    *)
EXTENDS UiMirror

TextBytes == [text \in Texts |-> IF text = Plain THEN 1 ELSE 2]
=============================================================================

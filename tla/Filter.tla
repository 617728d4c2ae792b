------------------------------- MODULE Filter -------------------------------
(* Array.prototype.filter, of which the page's scripts make much use: by the *)
(* places of the elements that pass.                                         *)
EXTENDS Naturals, Sequences

Pick(s, passed) ==
  LET picked[n \in 0 .. Len(s)] ==
        IF n = 0 THEN <<>>
        ELSE IF n \in passed THEN Append(picked[n - 1], s[n]) ELSE picked[n - 1]
  IN picked[Len(s)]
=============================================================================

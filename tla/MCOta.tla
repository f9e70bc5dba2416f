------------------------------- MODULE MCOta --------------------------------
EXTENDS Ota

(* Two good images of different lengths, "short" and "long"; "long" again  *)
(* when the server announces less or cannot send all of it; a damaged one; *)
(* one for another product; one without a size.                            *)
Files == {"short", "long", "understated", "cut", "damaged", "foreign", "sizeless"}
FilesAnnounced ==
    [short |-> 2, long |-> 3, understated |-> 1, cut |-> 3, damaged |-> 2, foreign |-> 2, sizeless |-> 0]
FilesSent ==
    [short |-> 2, long |-> 3, understated |-> 3, cut |-> 2, damaged |-> 2, foreign |-> 2, sizeless |-> 1]
FilesIntact == Files \ {"damaged", "cut"}
FilesOurs == Files \ {"foreign"}

NeverSelected == {FALSE}
=============================================================================

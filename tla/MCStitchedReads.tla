-------------------------- MODULE MCStitchedReads --------------------------
(* A chain of three streams: "leaf" may be forked from "fork", "fork" from  *)
(* "root".                                                                  *)
EXTENDS StitchedReads

Chain == [s \in Streams |-> CASE s = "leaf" -> "fork" [] s = "fork" -> "root"
                              [] OTHER -> None]
=============================================================================

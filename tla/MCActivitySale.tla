---------------------------- MODULE MCActivitySale ----------------------------
(* A small instance of ActivitySale.                                       *)
EXTENDS ActivitySale

(* A short sale that is about to begin.                                    *)
SomeWindows == { <<1, 2>> }

(* The jobs over two activities, and either program of the sale over one.  *)
SomeDeployments ==
  { [parts |-> {"job"}, numbers |-> Activities],
    [parts |-> {"gateway"}, numbers |-> {Sample}],
    [parts |-> {"processor"}, numbers |-> {Sample}] }
=============================================================================

------------------------------ MODULE MCRoute -------------------------------
(* Small networks for Route.                                               *)
EXTENDS Route, TLC

\* Three hosts in a line, a -- b -- c.
LineHost == "a1" :> "a" @@ "b1" :> "b" @@ "b2" :> "b" @@ "c1" :> "c"
LineWire == "a1" :> "b1" @@ "b1" :> "a1" @@ "b2" :> "c1" @@ "c1" :> "b2"
LineHops ==
  "a" :> ("a1" :> 0 @@ "b1" :> 1 @@ "b2" :> 1 @@ "c1" :> 2) @@
  "b" :> ("a1" :> 1 @@ "b1" :> 0 @@ "b2" :> 0 @@ "c1" :> 1) @@
  "c" :> ("a1" :> 2 @@ "b1" :> 1 @@ "b2" :> 1 @@ "c1" :> 0)

\* The line is one of the networks AgreementIsRight is about.
ASSUME LineExact == HopsExact
=============================================================================

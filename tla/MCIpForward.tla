---------------------------- MODULE MCIpForward -----------------------------
(* MCRoute's line of three hosts for IpForward, with routes set by hand in *)
(* the middle, and packets from one end to the other.                      *)
EXTENDS IpForward, MCRoute

\* First the way to c1, then a default route (of length 1) to a.
LineManual == [h \in Hosts |->
  IF h # "b" THEN <<>>
  ELSE <<[covers |-> {"c1"}, len |-> 32, dev |-> "b2", via |-> "c"],
         [covers |-> Devices, len |-> 1, dev |-> "b1", via |-> "a"]>>]
LineTraffic == {[from |-> "a", dst |-> "c1", drop |-> FALSE],
                [from |-> "a", dst |-> "b1", drop |-> FALSE],
                [from |-> "c", dst |-> "a1", drop |-> TRUE]}

\* Of the routes by hand EveryHopNearer is about these are an instance.
ASSUME LineLeads == HandRoutesLead
=============================================================================

------------------------------ MODULE MCUpgrade ------------------------------
(***************************************************************************)
(* Instances of Upgrade for TLC: command lines with good and bad options,  *)
(* and clusters that are fresh, were upgraded before, or are updating.     *)
(***************************************************************************)
EXTENDS Upgrade

Option(key, value) == [key |-> key, value |-> value]
Command(options) == [suite |-> TRUE, image |-> "new", options |-> options]

MCCommands ==
  {Command(<<Option("abort-at", <<"#", 0>>), Option("disrupt-reboot", <<"force">>)>>),
   Command(<<Option("abort-at", <<"random">>)>>), Command(<<Option("disrupt-reboot", <<"graceful">>)>>),
   Command(<<Option("abort-at", <<"#", 101>>)>>), Command(<<Option("abort-at", << >>)>>),
   Command(<<Option("malformed", << >>)>>), Command(<<Option("x", << >>)>>),
   Command(<<Option("abort-at", <<"#", 1>>), Option("abort-at", <<"#", 1>>)>>),
   [suite |-> FALSE, image |-> "new", options |-> << >>], [suite |-> TRUE, image |-> "none", options |-> << >>],
   [suite |-> TRUE, image |-> "cur", options |-> << >>],
   [suite |-> TRUE, image |-> "other", options |-> <<Option("abort-at", <<"random">>)>>]}

Entry(image, done) == [image |-> image, done |-> done]

MCClusters ==
  {[gen |-> 1, obs |-> 1, spec |-> "none", exact |-> FALSE, desired |-> "cur", history |-> <<Entry("cur", TRUE)>>,
    good |-> TRUE],
   [gen |-> 2, obs |-> 2, spec |-> "cur", exact |-> TRUE, desired |-> "cur",
    history |-> <<Entry("cur", TRUE), Entry("new", TRUE)>>, good |-> TRUE],
   [gen |-> 2, obs |-> 1, spec |-> "new", exact |-> FALSE, desired |-> "cur", history |-> <<Entry("cur", TRUE)>>,
    good |-> TRUE]}
=============================================================================

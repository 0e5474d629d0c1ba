----------------------------- MODULE MCBallotBox -----------------------------
(* Model-checking instance: servers a, b, c in the order of their PeerId.  *)
EXTENDS BallotBox

CONSTANTS a, b, c

ThreeServers == {a, b, c}

Conf(voters, version) == [voters |-> voters, version |-> version]
None == Conf(<<>>, 0)

\* A change from one voter to three, with a version of its own for each.
Versioned == {<<Conf(<<b>>, 1), None>>,
              <<Conf(<<a, b, c>>, 2), Conf(<<b>>, 1)>>,
              <<Conf(<<a, b, c>>, 2), None>>}

\* The same, and two with the version the source gives them.
Mixed == {<<Conf(<<a, b, c>>, 2), Conf(<<b>>, 1)>>, <<Conf(<<b>>, 1), None>>,
          <<Conf(<<a, b, c>>, 0), None>>, <<Conf(<<b>>, 0), None>>}
===============================================================================

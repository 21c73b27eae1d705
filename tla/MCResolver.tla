----------------------------- MODULE MCResolver -----------------------------
(***************************************************************************)
(* Instances of Resolver for TLC: every index over three packages, two or  *)
(* three versions each, whose versions have at most one dependency.        *)
(***************************************************************************)
EXTENDS Resolver

Caret(v) == [kind |-> "caret", base |-> v]
Exact(v) == [kind |-> "exact", base |-> v]
Native(n, r) ==
  [name |-> n, req |-> r, tier |-> "native", optIn |-> FALSE, source |-> "registry"]
Foreign(n, r) ==
  [name |-> n, req |-> r, tier |-> "foreign-runtime", optIn |-> TRUE, source |-> "registry"]
From(n, s) == [Native(n, Caret(10000)) EXCEPT !.source = s]

MCVersions == {300, 10000, 10100, 20000}

(* Dependencies versions are published with. *)
MCOptions ==
  {Native(1, Exact(10000)), Native(1, Caret(10000)), Native(2, Caret(10000)), Native(3, Caret(10000)),
   Native(3, Exact(20000)), Foreign(1, Caret(10000)), Foreign(3, Caret(10000))}
MCReleases == {{}} \cup {{d} : d \in MCOptions}

Published(n) ==
  IF n = 1 THEN {10000, 10100} ELSE IF n = 2 THEN {10000} ELSE {10000, 10100, 20000}

Some(n) ==
  IF n = 1 THEN [Published(1) -> MCReleases]
  ELSE IF n = 2
  THEN [Published(2) -> {{}, {Native(3, Caret(10000))}, {Native(1, Exact(10000))},
                         {Foreign(1, Caret(10000))}, {Foreign(3, Caret(10000))}}]
  ELSE {f \in [Published(3) -> MCReleases] :
          f[10000] = {} /\ f[20000] \in {{}, {Native(1, Exact(10000))}}}

IndexesOf(A, B, C) == {[n \in {1, 2, 3} |-> IF n = 1 THEN a ELSE IF n = 2 THEN b ELSE c] :
                         a \in A, b \in B, c \in C}

(* An index of each kind of error, and 0.x versions; others publish to these. *)
Plain(n) == [v \in Published(n) |-> {}]
MCMoving ==
  IndexesOf({Plain(1), [v \in {300, 10000} |-> {From(3, "path")}],
             [v \in {300} |-> {From(2, "git")}], [v \in {300} |-> {Native(3, Caret(300))}],
             [v \in {10000} |-> {Native(2, Caret(10000)), Foreign(3, Caret(10000))}]},
            {Plain(2), <<>>, [v \in {10000} |-> {Native(3, Caret(300))}]},
            {Plain(3)})
MCIndexes == IndexesOf(Some(1), Some(2), Some(3)) \cup MCMoving

MCManifests ==
  {{Native(1, Caret(10000))}, {Native(1, Caret(10000)), Native(2, Caret(10000))},
   {Native(1, Caret(10000)), Native(2, Caret(10000)), Native(3, Caret(10000))},
   {Native(2, Caret(10000)), Foreign(3, Caret(10000))},
   {Native(1, Caret(300)), From(2, "path")}, {Native(1, Caret(10000)), From(2, "git")}}
=============================================================================

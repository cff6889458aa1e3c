---------------------------- MODULE MCVacancies ----------------------------
(* Small instances of Vacancies for TLC. *)
EXTENDS Vacancies, TLC

CONSTANTS c1, d1, c2, h1, h2, h3, s1, s2, de

\* Two click-outs from two cities and a direct link that names the country
\* only: it is alike both, and they are not alike.
Spelled  == (c1 :> h1) @@ (d1 :> h2) @@ (c2 :> h3)
Likeness == {<<h1, h2>>, <<h2, h1>>, <<h2, h3>>, <<h3, h2>>}
Lengths  == (c1 :> 1) @@ (d1 :> 1) @@ (c2 :> 2)

\* The click-outs are of one minute; the second has no country.
OneMinute  == (c1 :> 2) @@ (d1 :> 1) @@ (c2 :> 2)
OneWithout == (h1 :> de) @@ (h2 :> de) @@ (h3 :> NoLand)

\* All have their own dates, the direct link the latest, and one country.
OwnMinutes == (c1 :> 1) @@ (d1 :> 3) @@ (c2 :> 2)
OneLand    == [h \in Hash |-> de]

\* The first two have one hash.
SpelledAlike == (c1 :> h1) @@ (d1 :> h1) @@ (c2 :> h3)

\* Scans differ in nothing but their names.
Scans == Permutations({s1, s2})
=============================================================================

---------------------------- MODULE MCDocuments ----------------------------
(***************************************************************************)
(* Findings and archives for Documents.                                    *)
(*                                                                         *)
(*     /me/  dl/  app1  app2 (a family)  t.zip (an archive)  t/ (its       *)
(*                sibling)                                                 *)
(*           work/  ca (a cache)  Old Stuff.zip (an archive)  Old Stuff/   *)
(*           workshop                                                      *)
(*     /opt                                                                *)
(*                                                                         *)
(* Of the files in work one has a name of two characters, one has a blank  *)
(* in its name, and one of them begins with the name of the other; the     *)
(* name of work begins another directory's that is not in it.              *)
(***************************************************************************)
EXTENDS Documents, TLC

CONSTANTS home, dl, z1, z2, t, td, work, c, q, qd, shop, opt,
          reg, side, dir, link, photo, thumb

MCPieces ==
    {"/", " ", ",", ":", "me", "dl", "app", "1", "2", "t", ".zip", "work", "shop", "ca",
     "Old", "Stuff", "opt", "open", "keep"}

MCWidth == [x \in MCPieces \cup {"~"} |->
    CASE x \in {"/", " ", ",", ":", "1", "2", "t", "~"} -> 1 [] x \in {"me", "dl", "ca"} -> 2
      [] x \in {"app", "Old", "opt"} -> 3 [] x = "Stuff" -> 5 [] OTHER -> 4]

MCStops == {" ", ",", ":", "<redacted>"}

MCNameOf == [p \in Paths |->
    CASE p = home -> <<"me">> [] p = dl -> <<"dl">> [] p = z1 -> <<"app", "1">>
      [] p = z2 -> <<"app", "2">> [] p = t -> <<"t", ".zip">> [] p = td -> <<"t">>
      [] p = work -> <<"work">> [] p = c -> <<"ca">>
      [] p = q -> <<"Old", " ", "Stuff", ".zip">> [] p = qd -> <<"Old", " ", "Stuff">>
      [] p = shop -> <<"work", "shop">> [] p = opt -> <<"opt">>]

MCSpelling == [p \in Paths |->
    (CASE p \in {home, opt} -> <<"/">> [] p \in {dl, work, shop} -> <<"/", "me", "/">>
       [] p \in {z1, z2, t, td} -> <<"/", "me", "/", "dl", "/">>
       [] OTHER -> <<"/", "me", "/", "work", "/">>) \o MCNameOf[p]]

MCPathRank == [p \in Paths |->
    CHOOSE i \in 1..12 : <<home, dl, z1, z2, td, t, work, qd, q, c, shop, opt>>[i] = p]

F(p, ps, tier, kind, detector, size, name, reason, scenario, missing) ==
    [path |-> Plain(p), paths |-> {Plain(r) : r \in ps}, actionable |-> {Plain(r) : r \in ps},
     tier |-> tier, kind |-> kind, detector |-> detector, size |-> size, confidence |-> 75,
     name |-> [as |-> "text", text |-> name], reason |-> reason, scenario |-> scenario, missing |-> missing]

Family ==
    F(dl, {z1, z2}, "likely_safe", "artifact_family", "artifact-family", 2, <<"app">>,
      <<"app">>, <<"keep", " ">> \o MCNameOf[z1] \o <<",">>, TRUE)
Cache == F(c, {c}, "safe_delete", "cache", "known-location", 1, <<"ca">>, MCSpelling[c], <<>>, FALSE)
Work == F(work, {work}, "keep", "managed_bundle", "managed-bundle", 3, <<"work">>,
          MCSpelling[home], MCNameOf[work], FALSE)
Archive == F(q, {q}, "review", "archive", "archive-installer", 2, MCNameOf[q],
             MCNameOf[qd], MCNameOf[q] \o <<" ", "/">> \o MCNameOf[q], TRUE)
Rest(s) == F(dl, {dl}, "unknown", "unknown", "large-unexplained", s, <<"dl">>, <<>>, <<>>, FALSE)
Other == F(opt, {opt}, "unknown", "unknown", "large-unexplained", 3, <<"opt">>,
           MCSpelling[shop] \o <<" ">> \o MCSpelling[c] \o <<" ">> \o MCSpelling[qd], <<>>, FALSE)

C(a, d, alloc, format, opens, members, fs) ==
    [archive |-> a, dir |-> d, alloc |-> alloc, size |-> alloc, format |-> format, opens |-> opens,
     members |-> members, files |-> fs, claimed |-> FALSE, sibling |-> "dir"]

MCTypeOf == [m \in Members |->
    IF m = dir THEN "directory" ELSE IF m = link THEN "link" ELSE "regular"]

Flip(x, y) == (x \ y) \cup (y \ x)

(* An archive of some members, and a directory with one file more or less,  *)
(* if any, than extraction leaves.                                          *)
MCCandidates ==
    {C(t, td, 3, k.format, TRUE, k.members,
       Flip({m \in k.members : MCTypeOf[m] = "regular"} \ {side}, k.other)) :
        k \in [format : {"zip", "tar"}, members : SUBSET Members,
               other : {{}, {reg}, {photo}, {thumb}}]}
    \cup {C(q, qd, 2, "other", TRUE, {}, {}), C(q, qd, 2, "tar", FALSE, {}, {}),
          C(q, qd, 2, "compressed", TRUE, {}, {}),
          C(t, td, 3, "compressed", TRUE, {reg}, {reg}),
          C(t, td, 3, "zip", TRUE, {reg, side, dir}, {reg})}

MCSizeOf == [m \in Members |-> IF m = photo THEN 2 ELSE 1]

MCResults ==
    {[findings |-> <<Rest(4)>> \o tie \o <<Archive, Family, Cache>>,
      archives |-> {C(q, qd, 2, "tar", FALSE, {}, {}),
                    C(t, td, 3, "zip", TRUE, {reg, side, dir}, {reg})}] : tie \in {<<Work, Other>>, <<Other, Work>>}}
    \cup {
     [findings |-> <<Family, Cache, Rest(1)>>,
      archives |-> {C(t, td, 3, "compressed", TRUE, {reg}, {reg}),
                    C(q, qd, 2, "other", TRUE, {}, {})}]}

Denials == {Off, <<>>, <<work>>, <<work, z1>>}

MCRequests ==
    [command : {"export"}, format : {"all"}, from : {FALSE}, deny : Denials, min : {0, 2},
     pairs : {TRUE}]
    \cup [command : {"report"}, format : {"json", "xlsx"}, from : BOOLEAN, deny : {Off, <<>>, <<work>>},
          min : {2}, pairs : {FALSE}]
    \cup [command : {"review"}, format : {"md"}, from : {TRUE}, deny : {<<work>>}, min : {2},
          pairs : {FALSE}]
    \cup [command : {"pairs"}, format : {"none"}, from : {FALSE}, deny : {Off, <<work>>}, min : {2},
          pairs : {TRUE}]
=============================================================================

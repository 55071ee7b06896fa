------------------------------ MODULE Redaction ------------------------------
(***************************************************************************)
(* What --redact and --redact-prefix do to a finding, a pair and a report  *)
(* document (src/redact/redact.go).                                        *)
(*                                                                         *)
(* Data.  A path as it is written is a form: plain, abbreviated to "~", or *)
(* a token, each of a path; two paths have two tokens.  A text is a        *)
(* sequence of pieces, cut so small that a name or a path that is part of  *)
(* another, or of a text, is some of its pieces.  What is cut out of a     *)
(* text leaves a mark for each of its pieces: a run of them is one         *)
(* "<redacted>", or one "~", of the program's.  No path or name is found   *)
(* in those words.  The deny prefixes are as New leaves them: cleaned,     *)
(* with "~" expanded, in the order of the flags.                           *)
(***************************************************************************)
EXTENDS Sorting, SequencesExt

CONSTANTS
    Paths,
    Home,       (* the home directory                                       *)
    Pieces,     (* what paths and texts are made of                         *)
    Spelling,   (* each path, in pieces                                     *)
    NameOf,     (* its base name                                            *)
    Stops,      (* the pieces a path in a text is taken to end before:      *)
                (* blanks, quotes, and the like                             *)
    Width       (* the characters of each                                   *)

Slash == "/"
Mark  == "<redacted>"
Tilde == "~"

Symbols == Pieces \cup {Mark, Tilde}

ASSUME RedactionAssumption ==
    /\ Home \in Paths
    /\ Slash \in Pieces /\ Mark \notin Pieces /\ Tilde \notin Pieces
    /\ Spelling \in [Paths -> Seq(Pieces) \ {<<>>}]
    /\ NameOf \in [Paths -> Seq(Pieces \ {Slash}) \ {<<>>}]
    /\ \A p \in Paths : IsSuffix(<<Slash>> \o NameOf[p], Spelling[p])
    /\ Mark \in Stops /\ Slash \notin Stops
    /\ Width \in [Pieces \cup {Tilde} -> Nat]

LengthOf(s) == SumFunction([i \in DOMAIN s |-> Width[s[i]]])

under(p, q) == p = q \/ IsPrefix(Append(Spelling[q], Slash), Spelling[p])

Form(as, p) == [as |-> as, path |-> p]

Plain(p) == Form("plain", p)

(* A form is under a prefix if it still starts at the root: "~/x" and a     *)
(* token are not.                                                           *)
denied(deny, v) == v.as = "plain" /\ \E d \in Range(deny) : under(v.path, d)

token(v) == Form("token", v.path)

Path(deny, v) ==
    IF denied(deny, v) THEN token(v)
    ELSE IF v.as = "plain" /\ under(v.path, Home) THEN Form("home", v.path)
    ELSE v

RedactPaths(deny, vs) == {Path(deny, v) : v \in vs}

-----------------------------------------------------------------------------
(* Texts                                                                    *)

(* A form that is not a token, in the symbols of a text.                    *)
Written(v) ==
    [i \in DOMAIN Spelling[v.path] |->
        IF v.as = "home" /\ i <= Len(Spelling[Home]) THEN Tilde ELSE Spelling[v.path][i]]

(* The fragments of some paths, each path and its name if long enough, but  *)
(* no token's: there is none in a text.                                     *)
FragmentsOf(vs) ==
    LET ws == {v \in vs : v.as # "token"}
    IN  {Written(v) : v \in ws}
        \cup {n \in {NameOf[v.path] : v \in ws \ {Form("home", Home)}} : LengthOf(n) >= 3}

(* The longest first, those of one length in any order.                     *)
Fragments(vs) ==
    LET fs == SetToSeq(FragmentsOf(vs))
    IN  StableSort(fs, {e \in (DOMAIN fs) \X (DOMAIN fs) :
                            LengthOf(fs[e[1]]) > LengthOf(fs[e[2]])})

(* The pattern f is found in s at i.                                        *)
Occurs(f, s, i) == i + Len(f) - 1 <= Len(s) /\ \A k \in 1..Len(f) : s[i + k - 1] = f[k]

Shows(s, f) == \E i \in DOMAIN s : Occurs(f, s, i)

(* The places of a match at i: the pattern, and if it is a prefix what      *)
(* continues it as a path, up to a stop.                                    *)
Match(p, s, i) ==
    LET n == i + Len(p.find)
    IN  (i..(n - 1)) \cup {j \in n..Len(s) : /\ p.tail /\ s[n] = Slash
                                             /\ \A k \in n..j : s[k] \notin Stops}

(* The places of all matches, from left to right, none within another.      *)
Matched(p, s) ==
    LET upTo[i \in 0..Len(s)] ==
            IF i = 0 THEN {}
            ELSE LET taken == upTo[i - 1]
                 IN  IF i \notin taken /\ Occurs(p.find, s, i) THEN taken \cup Match(p, s, i)
                     ELSE taken
    IN  upTo[Len(s)]

Replaced(p, s) ==
    LET places == Matched(p, s)
    IN  [i \in DOMAIN s |-> IF i \in places THEN p.put ELSE s[i]]

Prefix(d) == [find |-> Spelling[d], tail |-> TRUE, put |-> Mark]
Fragment(f) == [find |-> f, tail |-> FALSE, put |-> Mark]
Abbreviate == [find |-> Spelling[Home], tail |-> FALSE, put |-> Tilde]

(* Mutant of Passes: the home directory is abbreviated first, and hides the *)
(* prefixes below it.                                                       *)
PassesHomeFirst(deny, scrub) ==
    <<Abbreviate>>
    \o [i \in DOMAIN deny |-> Prefix(deny[i])]
    \o [i \in DOMAIN scrub |-> Fragment(scrub[i])]

(* Every deny prefix, then every fragment, then the home directory.         *)
Passes(deny, scrub) ==
    Append([i \in DOMAIN deny |-> Prefix(deny[i])] \o [i \in DOMAIN scrub |-> Fragment(scrub[i])],
           Abbreviate)

(* Each pass works on what the one before it left.                          *)
text(deny, s, scrub) ==
    LET ps == Passes(deny, scrub)
        after[k \in 0..Len(ps)] == IF k = 0 THEN s ELSE Replaced(ps[k], after[k - 1])
    IN  after[Len(ps)]

-----------------------------------------------------------------------------
(* Findings, pairs and documents                                            *)

(* The paths of a finding that are denied.                                  *)
DeniedOf(deny, f) == {v \in {f.path} \cup f.paths : denied(deny, v)}

(* A finding of a document.  If any of its paths is denied its name gives   *)
(* way to a token, and the fragments of these paths are cut out of its      *)
(* texts.                                                                   *)
Finding(deny, f) ==
    LET hit   == DeniedOf(deny, f)
        scrub == Fragments(hit)
    IN  [f EXCEPT !.path = Path(deny, @), !.paths = RedactPaths(deny, @),
                  !.actionable = RedactPaths(deny, @),
                  !.name = IF hit = {} THEN @ ELSE token(f.path),
                  !.reason = text(deny, @, scrub),
                  !.scenario = text(deny, @, scrub)]

(* If either side is denied the fragments of both are cut out.              *)
Pair(deny, p) ==
    LET hit   == denied(deny, p.archive) \/ denied(deny, p.dir)
        scrub == Fragments(IF hit THEN {p.archive, p.dir} ELSE {})
    IN  [p EXCEPT !.archive = Path(deny, @), !.dir = Path(deny, @),
                  !.detail = text(deny, @, scrub)]

Document(deny, d) ==
    [d EXCEPT !.root = Path(deny, @),
              !.findings = [i \in DOMAIN @ |-> Finding(deny, @[i])],
              !.pairs = [i \in DOMAIN @ |-> Pair(deny, @[i])]]

=============================================================================

----------------------------- MODULE ScriptRules -----------------------------
(***************************************************************************)
(* The order in which the scripts take their steps, as rules about one     *)
(* program p: what is hashed before it is loaded, compared before it is    *)
(* kept, listed after it is written.  A program says nothing about what    *)
(* other runs do between its steps; ScriptRun does.                        *)
(***************************************************************************)
EXTENDS Instructions, Naturals

Has(p, i) == \E k \in DOMAIN p : p[k] = i

\* What an instruction does to inputs, to the script's files and to others'.
Hashes(i, x) == i[1] \in {"pinned", "hash"} /\ i[2] = x
Loaded(i)    == IF i[1] = "load" THEN {i[2]} ELSE IF i[1] = "native" THEN i[3] ELSE {}
Writes       == {"put", "new", "native"}
WritesTo(i, f) == i[1] \in Writes /\ i[2] = f
Lists(i, f)  == (i[1] = "collect" /\ i[2] = f) \/ (i[1] = "list" /\ f \notin i[2])
Taken(i)     == IF i[1] = "take" THEN {<<i[2], i[3]>>}
                ELSE IF i[1] = "native" THEN {<<i[4], f>> : f \in i[5]} ELSE {}
Ends(i, o)   == (i[1] = "unwatch" /\ i[2] = o) \/ (i[1] = "build" /\ o = "hook")
BasePass(i)  == i[1] = "pass" /\ i[2] = "base"

\* What a script writes last.
Document(d) == IF d = "profile_body_infer" THEN "report" ELSE "manifest"

\* What Python loads of a script before the script can hash it.
Imported == {"script", "rotation"}

\* Scripts that hash what ran once more for their report.
ReportsAnew == {"run_body_flow"}

\* An input that is hashed again at the end is loaded between its hashes, unless
\* Python loaded it before; where the report has hashes of its own, they follow.
Bracketed(p, d) ==
    \A m, j \in DOMAIN p :
        p[m][1] = "recheck" /\ p[m][2] \in Loaded(p[j]) \ Imported =>
            /\ j < m
            /\ \A i \in DOMAIN p :
                   Hashes(p[i], p[m][2]) /\ (i < m \/ d \notin ReportsAnew) => i < j

\* The call that others are compared with is not observed.
Unobserved(p) ==
    \A k \in DOMAIN p : BasePass(p[k]) =>
        \A j \in 1..(k - 1) : p[j][1] = "watch" =>
            \E m \in (j + 1)..(k - 1) : Ends(p[m], p[j][2])

\* The result of the call at j is still there at k.
Stands(p, j, k) ==
    /\ p[j][1] = "pass"
    /\ \A m \in (j + 1)..(k - 1) : p[m][1] = "pass" => p[m][2] \notin {"base", p[j][2]}

\* What is kept of an observed call was compared with the unobserved one.
Compared(p) ==
    \A k \in DOMAIN p :
        /\ p[k][1] = "keep" =>
               \A j \in 1..(k - 1) : Stands(p, j, k) /\ p[j][2] \in {"part", "seen"} =>
                   \E m \in (j + 1)..(k - 1) :
                       p[m] = Same(p[j][2]) \/ (p[j][2] = "seen" /\ p[m] = Close("seen"))
        /\ p[k][1] \in {"same", "close"} => \E j \in 1..(k - 1) : BasePass(p[j])

\* Scripts that refuse a directory with anything in it, and create their case
\* files exclusively.
Exclusive(p) == Has(p, Empty) /\ Has(p, New("case0"))

\* Such a script creates its first case before it writes or lists anything.
Claiming(p) ==
    Exclusive(p) =>
        \E c \in DOMAIN p :
            /\ p[c] = New("case0")
            /\ \A i \in DOMAIN p : /\ p[i][1] \notin {"native", "newdir"}
                                   /\ p[i][1] \in Writes \cup {"list", "collect"} => c <= i

\* A manifest lists whatever was written before it, and is written last.
Listing(p, d) ==
    /\ Has(p, Put("manifest")) =>
           \A j \in DOMAIN p : p[j][1] \in Writes /\ p[j][2] # Document(d) =>
               \E i \in DOMAIN p : j < i /\ Lists(p[i], p[j][2])
    /\ \A j \in DOMAIN p : WritesTo(p[j], Document(d)) => j = Len(p) /\ p[j][1] # "native"

\* What is loaded from a directory whose manifest is read is loaded after that
\* and has its hash compared with it, sooner or later.
Checking(p, d) ==
    \A k \in DOMAIN p : p[k][1] = "read" =>
        /\ p[k][2] # d
        /\ \A j \in DOMAIN p :
               /\ p[j][1] = "read" /\ p[j][2] = p[k][2] => j = k
               /\ \A t \in Taken(p[j]) : t[1] = p[k][2] =>
                      /\ t[2] # "." /\ k < j
                      /\ \E i \in DOMAIN p : k < i /\ p[i] = Listed(t[1], t[2])

\* Programs p and q are the same up to the manifest that tells which it is.
Alike(p, q) ==
    /\ Exclusive(p) = Exclusive(q)
    /\ \A k \in DOMAIN p : p[k][1] = "read" =>
           k \in DOMAIN q /\ \A j \in 1..k : p[j] = q[j]

\* Only files are listed that were written before, by name.
ByName(p) ==
    \A k \in DOMAIN p :
        /\ p[k][1] # "list"
        /\ p[k][1] = "collect" => \E j \in 1..(k - 1) : WritesTo(p[j], p[k][2])

\* What every script d keeps to, however it is called.
Orderly(p, d) ==
    /\ p \in Seq({p[k] : k \in DOMAIN p}) /\ p # <<>>
    /\ Bracketed(p, d) /\ Unobserved(p) /\ Compared(p)
    /\ Claiming(p) /\ Listing(p, d) /\ Checking(p, d)

=============================================================================

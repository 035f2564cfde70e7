---------------------------- MODULE Instructions ----------------------------
(***************************************************************************)
(* The steps that the capture, comparison and profiling scripts of         *)
(* reference/ and scripts/ are made of.  A script is a sequence of         *)
(* instructions in the order of its main(); what an instruction does is    *)
(* in ScriptRun.  Tensor arithmetic, argument parsing and the contents of  *)
(* reports are left out.  mkdir(parents=True, exist_ok=True) has no        *)
(* instruction: it refuses nothing and no later step depends on it.        *)
(*                                                                         *)
(* The cases of a script are two: "case0" stands for the small shapes and  *)
(* "case1" for the full-size one, which --small-regression leaves out.     *)
(* How a script is called is its option: "small", "full", or "plain" when  *)
(* it has no such switch.                                                  *)
(***************************************************************************)
EXTENDS Sequences

\* Files that a script reads by path and that are not another script's output.
Pinned(x)  == <<"pinned", x>>    \* its hash must be the one in the script
Hash(x)    == <<"hash", x>>      \* its hash is taken, to be compared later or reported
Load(x)    == <<"load", x>>      \* it is read or imported
Recheck(x) == <<"recheck", x>>   \* its hash must still be the one taken

\* The script's own output directory.
NewDir     == <<"newdir">>       \* mkdir(exist_ok=False)
Empty      == <<"empty">>        \* refused when anything is in it
Put(f)     == <<"put", f>>       \* open('w'), replacing what is there
New(f)     == <<"new", f>>       \* open('x'), refused when it is there
ListBut(s) == <<"list", s>>      \* every file but the manifest, and but those in folders, is hashed
Collect(f) == <<"collect", f>>   \* one file is hashed

List == ListBut({})

\* One case: the original module is called without and with observers.
Build      == <<"build">>        \* a new module; the hooks of the last one are gone
Watch(o)   == <<"watch", o>>     \* "hook" on the module, "profile" on the interpreter
Unwatch(o) == <<"unwatch", o>>
Pass(v)    == <<"pass", v>>      \* a call, its results kept as "base", "repeat", "part" or "seen"
Same(v)    == <<"same", v>>      \* equal to "base" bit by bit
Close(v)   == <<"close", v>>     \* equal to "base" within a tolerance
Keep       == <<"keep">>         \* the observed values join the tensors to save

\* Another script's output directory d.
Read(d)      == <<"read", d>>    \* its manifest
Take(d, f)   == <<"take", d, f>>    \* its file f is loaded
Listed(d, f) == <<"listed", d, f>>  \* its file f has the hash the manifest lists
Note(d)      == <<"note", d>>    \* its manifest is hashed for the script's own manifest
Made(d, e)   == <<"made", d, e>> \* e's manifest has the hash that d's manifest notes

\* The native program: which file it writes, which inputs and which files of
\* d it reads by path.
Native(f, inputs, d, refs) == <<"native", f, inputs, d, refs>>

-----------------------------------------------------------------------------
(* How most captures are put together                                      *)

\* The loop over the shapes.
Cases(opt, Of(_)) == IF opt = "small" THEN Of("case0") ELSE Of("case0") \o Of("case1")

\* A case's folder of intermediate tensors, or its list of operations.
Taps(c) == IF c = "case0" THEN "taps0" ELSE "taps1"

\* A case's complete output, where it has a file of its own.
Full(c) == IF c = "case0" THEN "full0" ELSE "full1"

\* Only with --small-regression.
Regression(opt) == IF opt = "small" THEN <<Put("regression")>> ELSE <<>>

\* What follows the loop: tensors, rules, the listing, and last the manifest.
Closing(opt) ==
    Regression(opt) \o <<Put("upstream"), Put("rules"), List, Put("manifest")>>

\* An unobserved call, an observed one, the comparison of the two, and the
\* case's input; the hooks are removed before or after the comparison.
UnwatchThenCompare == <<Pass("seen"), Unwatch("hook"), Same("seen"), Keep>>
CompareThenUnwatch == <<Pass("seen"), Same("seen"), Unwatch("hook"), Keep>>

\* Which file the native program writes for a case.
Bin(c) == IF c = "case0" THEN "bin0" ELSE "bin1"

\* The hashes of several listed files, and loading several.
AllListed(d, fs) == [i \in DOMAIN fs |-> Listed(d, fs[i])]
AllTaken(d, fs)  == [i \in DOMAIN fs |-> Take(d, fs[i])]

=============================================================================

------------------------------ MODULE AppConfig ------------------------------
(***************************************************************************)
(* dbp::app_config (app_config.h, app_config.cpp): load_from_file reads a  *)
(* configuration file line by line into a map of sections of options,     *)
(* following @include lines through filefs::find (glob), and value<T>     *)
(* reads an option with a default.  A file system fs is a function from   *)
(* file names (all in one directory) to their lines as getline returns    *)
(* them; the options are a set of [section, key, value] entries, one per  *)
(* section and key.  The recursion of do_load is cut at MaxDepth nested   *)
(* includes, standing for the stack overflow an include cycle ends in.    *)
(***************************************************************************)
EXTENDS Naturals, Sequences, SequencesExt, StrUtils

CONSTANT MaxDepth

\* strcmp order, the order glob sorts its matches in (C locale).
RECURSIVE ByteLess(_, _)
ByteLess(x, y) ==
    IF y = "" THEN FALSE
    ELSE IF x = "" THEN TRUE
    ELSE Ord(At(x, 1)) < Ord(At(y, 1))
         \/ (At(x, 1) = At(y, 1) /\ ByteLess(SubSeq(x, 2, Len(x)), SubSeq(y, 2, Len(y))))

\* fnmatch of a pattern with '*' and '?' (no brackets in the patterns
\* enumerated).
RECURSIVE GlobMatch(_, _)
GlobMatch(p, s) ==
    IF p = "" THEN s = ""
    ELSE IF At(p, 1) = "*"
         THEN \E i \in 0..Len(s) : GlobMatch(SubSeq(p, 2, Len(p)), SubSeq(s, i + 1, Len(s)))
    ELSE s # "" /\ (At(p, 1) = "?" \/ At(p, 1) = At(s, 1))
         /\ GlobMatch(SubSeq(p, 2, Len(p)), SubSeq(s, 2, Len(s)))

\* filefs::find(pattern): the files glob matches, sorted; none when glob
\* fails (GLOB_NOMATCH).
Glob(fs, p) == SetToSortSeq({n \in DOMAIN fs : GlobMatch(p, n)}, ByteLess)

\* options[section][key] = value.
OptAssign(o, s, k, v) ==
    {e \in o : e.section # s \/ e.key # k} \cup {[section |-> s, key |-> k, value |-> v]}

\* A trimmed line that is skipped: empty, or a '#' or ';' comment.
Skipped(l) == l = "" \/ At(l, 1) \in {"#", ";"}

\* trim(line.substr(1, line.find(']') - 1)): up to the first ']', or to the
\* end when there is none (npos - 1 is still past the end).
SectionName(l) ==
    LET f == Find(l, "]") IN Trim(SubSeq(l, 2, IF f = 0 THEN Len(l) ELSE f - 1))

\* Mutant: the line is split at its last '='.
EqPosMut(l) == LET I == {i \in 2..Len(l) : At(l, i) = "="}
               IN IF I = {} THEN 0 ELSE CHOOSE i \in I : \A j \in I : i >= j

\* line.find_first_of('=', 1): the first '=' after the first character, 0
\* for npos.
EqPos(l) == LET I == {i \in 2..Len(l) : At(l, i) = "="}
            IN IF I = {} THEN 0 ELSE CHOOSE i \in I : \A j \in I : i <= j

RECURSIVE LoadLines(_, _, _, _, _), IncludeAll(_, _, _, _), DoLoad(_, _, _, _)

\* The while (getline) loop of do_load over the lines ls, in section sec.
\* acc is [opts, crash].
LoadLines(fs, ls, acc, sec, d) ==
    IF ls = <<>> \/ acc.crash THEN acc
    ELSE LET l == Trim(Head(ls))
             p == EqPos(l)
             key == Trim(SubSeq(l, 1, p - 1))
             val == Trim(SubSeq(l, p + 1, Len(l)))
             rest == Tail(ls)
         IN CASE Skipped(l)        -> LoadLines(fs, rest, acc, sec, d)
              [] At(l, 1) = "["    -> LoadLines(fs, rest, acc, SectionName(l), d)
              [] p = 0             -> LoadLines(fs, rest, acc, sec, d)
              [] key = "@include"  -> LoadLines(fs, rest, IncludeAll(fs, Glob(fs, val), acc, d), sec, d)
              [] OTHER -> LoadLines(fs, rest, [acc EXCEPT !.opts = OptAssign(@, sec, key, val)], sec, d)

\* for (i = fs.find(pattern); i != fs.end(); ++i) do_load(*i).
IncludeAll(fs, names, acc, d) ==
    IF names = <<>> THEN acc
    ELSE IncludeAll(fs, Tail(names), DoLoad(fs, Head(names), acc, d + 1), d)

\* do_load(name) at include depth d: a fresh current_section; past
\* MaxDepth the recursion has overflowed the stack.
DoLoad(fs, name, acc, d) ==
    IF d > MaxDepth THEN [acc EXCEPT !.crash = TRUE]
    ELSE LoadLines(fs, fs[name], acc, "", d)

\* load_from_file(name): clear(), then do_load; a file that cannot be
\* opened throws app_config_exception with the options cleared.
LoadFromFile(fs, name) ==
    IF name \notin DOMAIN fs THEN [opts |-> {}, crash |-> FALSE, thrown |-> TRUE]
    ELSE LET r == DoLoad(fs, name, [opts |-> {}, crash |-> FALSE], 0)
         IN [opts |-> r.opts, crash |-> r.crash, thrown |-> FALSE]

\* value<const string&>(section, name, def_value).
Value(o, s, k, def) ==
    IF \E e \in o : e.section = s /\ e.key = k
    THEN (CHOOSE e \in o : e.section = s /\ e.key = k).value ELSE def

\* value<int>: from_string<int> of the value, the default passed through
\* to_string<int>.
ValueInt(o, s, k, def) == StrToL(Value(o, s, k, ToDecimal(def)))

\* value<bool>: the default through to_string<bool> ("1" or "0"), then
\* YES, ON, TRUE or 1 in any case.
ValueBool(o, s, k, def) ==
    LET v == Value(o, s, k, IF def THEN "1" ELSE "0")
    IN \E w \in {"YES", "ON", "TRUE", "1"} : Compare(v, w)
=============================================================================

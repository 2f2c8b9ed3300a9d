------------------------------- MODULE MCCommand -------------------------------
(* A small instance of Command: every verb that is compiled, a reserved and an
   unknown one, and up to two arguments of any class. *)
EXTENDS Command, TLC

MCVerbs == Compiled \cup {"p4.file_contents", "no.such.verb"}

MCNames == {"build_id", "change", "max_files", "include_diff", "path", "max", "other"}

MCInputs == {NotAnObject} \cup
            UNION {[names -> Values] :
                      names \in {{}} \cup {{m, n} : m, n \in MCNames}}

(* With 4 units to the millisecond and a range of 64, 8 and more wrap around. *)
MCAskedDeadlines == {-1, 0, 1, 5, 8, 12, 17}

MCAskedBytes == {0, 3, 9}

MCDefaultMaxBytes == [v \in Compiled |-> 5]

MCChangelists == {<<>>, <<2>>, <<2, 2, 2>>, <<4, 3, 1>>, <<6, 1>>}
================================================================================

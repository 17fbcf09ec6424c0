-------------------------- MODULE MCFileTransfer ---------------------------
(* Instances of FileTransfer: parts of 2 characters, 4 at most in a file.    *)
EXTENDS FileTransfer

CONSTANTS a, b, s,          \* nodes
          whole, full, exact, large, lost,  \* files
          k1, k2, k3        \* keywords

\* whole ends inside a part, full has MAX_FILE_SIZE characters, exact fills its
\* parts, large is more than MAX_FILE_SIZE.
Sizes == [f \in File |->
            CASE f = whole -> 3 [] f = full -> 4 [] f = exact -> 2
              [] f = large -> 5 [] f = lost -> 1]

\* s has all the files but the lost one, and too many keywords for whole.  a has whole,
\* b has full, both under other keywords: they may download them again.
Disks == [n \in Node |-> CASE n = s -> File \ {lost} [] n = a -> {whole} [] n = b -> {full}]
Indexes0 == [n \in Node |-> [f \in File |->
               CASE n = s -> IF f = whole THEN k3 ELSE k1
                 [] <<n, f>> \in {<<a, whole>>, <<b, full>>} -> k2
                 [] OTHER -> NoEntry]]
ReadOnly == {<<b, exact>>}
Wanted == [n \in Node |-> CASE n = a -> {whole, full, exact, lost}
                           [] n = b -> {full, exact, large} [] n = s -> {}]
=============================================================================

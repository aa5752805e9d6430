---------------------------- MODULE MCSegmentMap -----------------------------
(***************************************************************************)
(* Instances of SegmentMap for TLC.                                        *)
(***************************************************************************)
EXTENDS SegmentMap

\* With and without a path and a message buffer, and two calls the function
\* rejects.
MCArgs ==
  [path : BOOLEAN, seg : {TRUE}, errbuf : {TRUE}, eblen : {TRUE}]
  \cup [path : BOOLEAN, seg : {TRUE}, errbuf : {FALSE}, eblen : {FALSE}]
  \cup {[path |-> TRUE, seg |-> TRUE, errbuf |-> FALSE, eblen |-> TRUE],
        [path |-> TRUE, seg |-> FALSE, errbuf |-> TRUE, eblen |-> TRUE]}

\* Files of either page size: empty, not a number of pages, read-only.
MCFiles ==
  {[size |-> 0, r |-> TRUE,  w |-> TRUE,  page |-> 1],
   [size |-> 3, r |-> TRUE,  w |-> TRUE,  page |-> 2],
   [size |-> 3, r |-> TRUE,  w |-> FALSE, page |-> 1]}

\* Every combination of the flags that steer the function in an initialised
\* descriptor, and some that an uninitialised one holds by chance, for a
\* request that is a whole number of the smaller pages and not of the larger;
\* and one that fixes the address at 0 from the first call on.
MCGiven ==
  {[flags |-> {"INITD"} \cup f, maplen |-> 3, ptr |-> 1] :
     f \in SUBSET {"UNLINK", "CREATE", "ADDR_FIXED"} \cup {{"RO"}, {"RO", "UNLINK"}}}
  \cup {[flags |-> f, maplen |-> 3, ptr |-> 1] :
          f \in {{}, {"RO", "UNLINK", "CREATE", "ADDR_FIXED"}}}
  \cup {[flags |-> {"INITD", "CREATE", "ADDR_FIXED"}, maplen |-> 4, ptr |-> 0]}
==============================================================================

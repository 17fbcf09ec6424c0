---------------------------- MODULE SearchService ----------------------------
(***************************************************************************)
(* What simple_search and the SEARCH handlers promise to the users, without *)
(* overlay, messages or relays: each attempt of a search is open until it   *)
(* has found something or timed out; what it finds is really there; what it *)
(* has found is never taken back; once timed out it finds nothing any more; *)
(* and a node's index changes only by downloading what its user's search    *)
(* found.                                                                   *)
(***************************************************************************)
EXTENDS Naturals

CONSTANTS Node, Word, File, NoFile, Name, Keywords, Index0, NoEntry, Hops,
          MaxSid

VARIABLES created, index

Sid == Node \X (1..MaxSid)
Hit == [peer : Node, file : File]

Init ==
    /\ created = [s \in Sid |-> NoEntry]
    /\ index = Index0

\* The peer has the file, and it is one the search asks for.
Sound(hit, w) ==
    /\ index[hit.peer][Name[hit.file]] = hit.file
    /\ w \in {Name[hit.file]} \cup Keywords[hit.file]

\* A new attempt gets an id that no earlier one has had.
Open(s) ==
    /\ created[s] = NoEntry
    /\ \E w \in Word, k \in DOMAIN Hops :
          /\ index[s[1]][w] = NoFile
          /\ created' = [created EXCEPT ![s] =
                 [status |-> "ACTIVE", hits |-> {}, word |-> w, hop |-> Hops[k]]]
    /\ UNCHANGED index

Find(s) ==
    /\ created[s] # NoEntry
    /\ created[s].status # "FAILED"
    /\ \E hits \in SUBSET {hit \in Hit : Sound(hit, created[s].word)} :
          /\ hits # {}
          /\ created' = [created EXCEPT ![s].status = "SUCCESS",
                                        ![s].hits = @ \cup hits]
    /\ UNCHANGED index

TimeOut(s) ==
    /\ created[s] # NoEntry
    /\ created[s].status = "ACTIVE"
    /\ created' = [created EXCEPT ![s].status = "FAILED"]
    /\ UNCHANGED index

\* The user downloads one of the hits.
Download(s) ==
    /\ created[s] # NoEntry
    /\ created[s].status = "SUCCESS"
    /\ \E hit \in created[s].hits : \E K \in SUBSET Keywords[hit.file] :
          index' = [index EXCEPT ![s[1]] =
              [w \in Word |-> IF w = Name[hit.file] \/ w \in K THEN hit.file ELSE @[w]]]
    /\ UNCHANGED created

Next == \E s \in Sid : Open(s) \/ Find(s) \/ TimeOut(s) \/ Download(s)

Spec == Init /\ [][Next]_<<created, index>>

IsActive(s) == created[s] # NoEntry /\ created[s].status = "ACTIVE"

\* Each attempt ends found or timed out.
EveryAttemptEnds == \A s \in Sid : IsActive(s) ~> ~IsActive(s)

=============================================================================

-------------------------------- MODULE MCParts --------------------------------
(***************************************************************************)
(* Instances for TLC of three parts that share no state and whose calls    *)
(* nothing interrupts, or only their own kind: SessionCache, TextSearch    *)
(* and ProjectQuery.  Each behaviour moves one of them; the others rest.   *)
(***************************************************************************)
EXTENDS SessionCache, TextSearch, ProjectQuery, TLC

(* SessionCache *)
CONSTANTS tiny, light, small, full, large

\* Two of the three small ones fill the cache by count, with bytes to spare;
\* one fills it by bytes; one is larger than the cache.
MCBytes == tiny :> 1 @@ light :> 1 @@ small :> 2 @@ full :> 5 @@ large :> 6

(* TextSearch *)
CONSTANTS x, y

\* One that overlaps itself, one with a space inside, one longer than what is
\* shown of a match, and a single letter.
MCPhrases == {<<x, x>>, <<x, Space, x>>, <<x, y, x, y>>, <<y>>}

(* ProjectQuery *)
\* Rows that match and tie, that are in the timeline without a hit, that are
\* not in it at all.
hit(time) == [time |-> time, fits |-> TRUE, hit |-> TRUE, files |-> {1}]
plain == [time |-> 2, fits |-> TRUE, hit |-> FALSE, files |-> {1, 2}]
outside == [time |-> 3, fits |-> FALSE, hit |-> TRUE, files |-> {2, 3}]

MCShard == {<< >>, <<<<hit(1), plain>>, <<hit(1)>>>>, <<<<plain>>, <<outside, hit(2)>>>>,
            <<<<hit(2)>>, <<hit(1), outside>>>>, <<<<outside>>>>}

\* Of projects of three sessions, those whose shards are in some order.
MCProjects == {<< >>} \cup {<<a, b, c>> : a \in MCShard, b \in MCShard, c \in MCShard}

VARIABLE part   \* the part that moves

\* The parts at rest: an empty cache, a text of which nothing has been read, and
\* the answered query of a project without sessions.
NoUse == CacheInit

NoSearch == SearchInit /\ phrase = <<y>>

NoQuery ==
  /\ shards = << >> /\ query = "text" /\ nextIndex = 1 /\ aborted = FALSE
  /\ worker = [w \in Worker |-> Fresh("done", 0)]
  /\ results = << >> /\ answer = << >> /\ outcome = "answered"

Init ==
  \/ part = "cache" /\ CacheInit /\ NoSearch /\ NoQuery
  \/ part = "text" /\ NoUse /\ SearchInit /\ NoQuery
  \/ part = "query" /\ NoUse /\ NoSearch /\ QueryInit

Next ==
  /\ UNCHANGED part
  /\ \/ part = "cache" /\ CacheNext /\ UNCHANGED <<searchVars, queryVars>>
     \/ part = "text" /\ SearchNext /\ UNCHANGED <<cacheVars, queryVars>>
     \/ part = "query" /\ QueryNext /\ UNCHANGED <<cacheVars, searchVars>>

\* The fairness of FairQuerySpec, where it is the query that moves.
FairSpec ==
  /\ Init /\ [][Next]_<<part, cacheVars, searchVars, queryVars>>
  /\ WF_queryVars(part = "query" /\ Merge)
  /\ \A w \in Worker : WF_queryVars(part = "query" /\ Proceeds(w))
================================================================================

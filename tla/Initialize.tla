------------------------------- MODULE Initialize -------------------------------
(***************************************************************************)
(* /initialize (nodejs/index.js) against the requests of players: three    *)
(* TRUNCATEs, one after the other and outside any transaction, while       *)
(* sockets may still be open.  A TRUNCATE waits for the transactions that  *)
(* use its table, so that a request, which Room makes one step, comes      *)
(* before it or after it.  A TRUNCATE may fail, which ends the handler.    *)
(***************************************************************************)
EXTENDS Room, Sequences

CONSTANTS Caller,     \* calls of /initialize that may be under way
          MaxIsu      \* bound: what one row of adding may reach

VARIABLES truncated,  \* caller -> the TRUNCATEs it has done, of those in Tables
          failed      \* history: some call has failed halfway

initializeVars == <<roomVars, truncated, failed>>

\* Bug: the purchases are deleted before the isu that paid for them.
BuyingFirst == <<"buying", "adding", "room_time">>

Tables == <<"adding", "buying", "room_time">>

Start(c) == /\ truncated[c] = Len(Tables)
            /\ truncated' = [truncated EXCEPT ![c] = 0]
            /\ UNCHANGED <<roomVars, failed>>

Truncate(c) ==
    /\ truncated[c] < Len(Tables)
    /\ LET table == Tables[truncated[c] + 1]
       IN  /\ adding' = IF table = "adding" THEN [t \in ReqTime |-> 0] ELSE adding
           /\ buying' = IF table = "buying" THEN {} ELSE buying
           /\ roomTime' = IF table = "room_time" THEN 0 ELSE roomTime
    /\ truncated' = [truncated EXCEPT ![c] = @ + 1]
    /\ UNCHANGED failed

TruncateFails(c) == /\ truncated[c] < Len(Tables)
                    /\ truncated' = [truncated EXCEPT ![c] = Len(Tables)]
                    /\ failed' = TRUE
                    /\ UNCHANGED roomVars

InitializeInit == /\ RoomInit
                  /\ truncated = [c \in Caller |-> Len(Tables)]
                  /\ failed = FALSE

\* A request of a player.
PlayerRequest ==
    /\ \E c \in Clock :
          \/ \E t \in ReqTime, isu \in Isu : adding[t] + isu <= MaxIsu /\ AddIsu(c, t, isu)
          \/ \E t \in ReqTime, i \in Item, n \in Count : BuyItem(c, t, i, n)
          \/ GetStatus(c)
    /\ UNCHANGED <<truncated, failed>>

Initializing == \E c \in Caller : Start(c) \/ Truncate(c) \/ TruncateFails(c)

InitializeNext == Initializing \/ PlayerRequest

InitializeSpec == InitializeInit /\ [][InitializeNext]_initializeVars
-----------------------------------------------------------------------------
(* Properties *)

\* Once /initialize has been answered, no room is in debt, whatever the players did
\* between its TRUNCATEs and however many callers there were, unless one failed
\* halfway: nobody spends isu that are deleted after the purchase (index.js:23).
SolventAfterInitialize ==
    ~ failed /\ (\A c \in Caller : truncated[c] = Len(Tables)) => Solvent

\* Copies are numbered without gap during it as well: a count from before it does
\* not buy a later copy (Game.js:78).
NumberedThroughout == OrdinalsContiguous

\* /initialize leaves no room in debt and no gap in the numbering of copies, whatever
\* players do between its TRUNCATEs (index.js:23, Game.js:78).
InitializeIsSafe == SolventAfterInitialize /\ NumberedThroughout
=============================================================================

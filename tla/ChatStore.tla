------------------------------- MODULE ChatStore -------------------------------
(***************************************************************************)
(* The reads of one process that are kept (chat-store.ts): the messages of a *)
(* chat for MsgTtl, and the list of chats until it is refreshed, in memory   *)
(* and in a file.  refresh and getChats do not give way, so each is a step   *)
(* and the flag loading is never seen set.  The text of a message is never   *)
(* blank (db/bubble-text.ts:115), so messages are never stale by their text. *)
(* FULL_SCAN is not set.                                                      *)
(***************************************************************************)
EXTENDS Naturals, FiniteSets

CONSTANTS
  None,
  Chats,       \* the chats of the list
  MsgTtl,      \* age from which messages are read again: 800 ms
  MaxMessages  \* bound on the messages Cursor writes

StoreAssumption == MsgTtl \in Nat \ {0} /\ MaxMessages \in Nat

VARIABLES
  busy,        \* isAgentBusy of the chat's row
  messages,    \* the messages Cursor has written
  past,        \* how many there were some units of time ago
  kept,        \* the messages kept, or None
  shown,       \* the number just returned to a caller, or None
  headers,     \* the chats of Cursor's index that are neither archived nor empty
  readable,    \* the index can be read
  named,       \* the chats that have a name
  list,        \* the list of the process, with the names it knows
  disk         \* the list in the cache file

vars == <<busy, messages, past, kept, shown, headers, readable, named, list, disk>>
chatVars == <<busy, messages, past, kept>>
listVars == <<headers, readable, named, list, disk>>

Listing(cs) == {[chat |-> c, name |-> IF c \in named THEN "named" ELSE "Untitled"] : c \in cs}
listFromGlobalHeaders == IF readable THEN Listing(headers) ELSE {}

Init ==
  /\ busy = FALSE /\ messages = 0
  /\ past = [i \in 1..MsgTtl |-> 0]
  /\ kept = None /\ shown = None
  /\ headers = {} /\ readable = TRUE /\ named = {}
  /\ list = {} /\ disk = {}

Hit(fresh) == ~fresh /\ kept # None /\ kept.age < MsgTtl /\ ~busy

getChat(fresh) ==
  /\ kept' = IF Hit(fresh) THEN kept ELSE [age |-> 0, count |-> messages]
  /\ shown' = IF Hit(fresh) THEN kept.count ELSE messages
  /\ UNCHANGED <<busy, messages, past, listVars>>

\* A list that is found is taken and written; none found leaves the old one.
Apply(found) == list' = found /\ disk' = found
Refreshed_Empty(found) == Apply(found)
Refreshed(found) == IF found # {} THEN Apply(found) ELSE UNCHANGED <<list, disk>>

refresh ==
  /\ kept' = None
  /\ Refreshed(listFromGlobalHeaders)
  /\ shown' = None
  /\ UNCHANGED <<busy, messages, past, headers, readable, named>>

\* Whoever asks for the list has it read again while it holds a chat without name.
getChats ==
  /\ \E e \in list : e.name = "Untitled"
  /\ Refreshed(listFromGlobalHeaders)
  /\ shown' = None
  /\ UNCHANGED <<chatVars, headers, readable, named>>

\* A new process starts from the file, which a crash may have left half written.
Restart ==
  /\ kept' = None /\ shown' = None
  /\ disk' \in {disk, {}}
  /\ list' = disk'
  /\ UNCHANGED <<busy, messages, past, headers, readable, named>>

\* The server, the MCP process and the guard have one file.
OtherWrites ==
  /\ listFromGlobalHeaders # {}
  /\ disk' = listFromGlobalHeaders
  /\ shown' = None
  /\ UNCHANGED <<chatVars, headers, readable, named, list>>

\* Cursor: the agent writes, chats come, get a name, are archived; its index
\* may be in a form that cannot be read.
World ==
  /\ shown' = None
  /\ \/ /\ \/ busy' = ~busy /\ UNCHANGED messages
           \/ messages < MaxMessages /\ messages' = messages + 1 /\ UNCHANGED busy
        /\ UNCHANGED <<past, kept, listVars>>
     \/ /\ \/ \E c \in Chats \ headers : headers' = headers \cup {c} /\ UNCHANGED <<readable, named>>
           \/ \E c \in headers : headers' = headers \ {c} /\ UNCHANGED <<readable, named>>
           \/ \E c \in headers \ named : named' = named \cup {c} /\ UNCHANGED <<readable, headers>>
           \/ readable' = ~readable /\ UNCHANGED <<headers, named>>
        /\ UNCHANGED <<chatVars, list, disk>>

Elapse ==
  /\ past' = [i \in 1..MsgTtl |-> IF i = 1 THEN messages ELSE past[i - 1]]
  /\ kept' = IF kept = None THEN None ELSE [kept EXCEPT !.age = IF @ < MsgTtl THEN @ + 1 ELSE @]
  /\ shown' = None
  /\ UNCHANGED <<busy, messages, listVars>>

Next ==
  \/ \E fresh \in BOOLEAN : getChat(fresh)
  \/ refresh \/ getChats \/ Restart \/ OtherWrites \/ World \/ Elapse

Spec == Init /\ [][Next]_vars

-------------------------------------------------------------------------------
Entries == [chat : Chats, name : {"named", "Untitled"}]

TypeOK ==
  /\ busy \in BOOLEAN /\ messages \in 0..MaxMessages
  /\ past \in [1..MsgTtl -> 0..MaxMessages]
  /\ kept = None \/ kept \in [age : 0..MsgTtl, count : 0..MaxMessages]
  /\ shown \in 0..MaxMessages \cup {None}
  /\ headers \subseteq Chats /\ named \subseteq Chats /\ readable \in BOOLEAN
  /\ list \subseteq Entries /\ disk \subseteq Entries

\* No caller is shown fewer messages than there were MsgTtl ago.
ShowsRecent == shown # None => shown >= past[MsgTtl]

\* A process that has a list of chats does not lose it, whatever the index is in.
ListKept == [][list # {} /\ list' = {} => Restart]_vars
===============================================================================

---------------------------- MODULE PromptMailbox ----------------------------
(***************************************************************************)
(* What the send queue promises its callers.  Every accepted prompt gets    *)
(* the next ticket and is owed to its composer; the prompts of one composer *)
(* are acknowledged as sent strictly in the order of acceptance, each one   *)
(* once; nothing is forgotten while the process lives.  A process that ends *)
(* takes what it owes with it: the queue is kept in memory.                 *)
(***************************************************************************)
EXTENDS Naturals

CONSTANT Composers

VARIABLES owed,    \* the tickets each composer still has to be sent
          ticket   \* the next ticket

mailbox == <<owed, ticket>>

MailboxInit == /\ owed = [c \in Composers |-> {}]
               /\ ticket = 1

Accept(c) == /\ owed' = [owed EXCEPT ![c] = @ \cup {ticket}]
             /\ ticket' = ticket + 1

Acknowledge(c) == \E t \in owed[c] :
                    /\ \A u \in owed[c] : t <= u
                    /\ owed' = [owed EXCEPT ![c] = @ \ {t}]
                    /\ UNCHANGED ticket

Forget == /\ owed' = [c \in Composers |-> {}]
          /\ UNCHANGED ticket

MailboxNext == \/ \E c \in Composers : Accept(c) \/ Acknowledge(c)
               \/ Forget

MailboxSpec == MailboxInit /\ [][MailboxNext]_mailbox
==============================================================================

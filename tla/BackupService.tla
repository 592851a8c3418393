---------------------------- MODULE BackupService ----------------------------
(***************************************************************************)
(* What the backup server promises about one user's files, with sessions,  *)
(* inodes, redis, crashes and connections left out.                        *)
(*                                                                         *)
(* Under every key (a user and a path) the server holds one content or     *)
(* nothing.  Opening an operation takes back what the user was last told   *)
(* about the key; only then may what is held change, and then in any way,  *)
(* because an operation can be cut short anywhere.  An answer tells the    *)
(* user what is held at that moment, and stays true until the user opens   *)
(* the next operation on the key.                                          *)
(***************************************************************************)
CONSTANTS Key,      \* the keys the promise is made for
          Content,  \* the contents a key may hold
          None,     \* nothing is held
          Unknown   \* the user has an operation open, or one that failed

VARIABLES held,     \* [Key -> Content \cup {None}]
          told      \* [Key -> Content \cup {None, Unknown}]

serviceVars == <<held, told>>

ServiceInit == /\ held = [k \in Key |-> None]
               /\ told = [k \in Key |-> Unknown]

\* The user opens an operation on k.
Ask(k) == /\ told' = [told EXCEPT ![k] = Unknown]
          /\ UNCHANGED held

\* The operation open on k makes progress, or is cut short.
Work(k) == /\ told[k] = Unknown
           /\ \E c \in Content \cup {None} : held' = [held EXCEPT ![k] = c]
           /\ UNCHANGED told

\* The user is told what is held under k.
Tell(k) == /\ told' = [told EXCEPT ![k] = held[k]]
           /\ UNCHANGED held

ServiceNext == \E k \in Key : Ask(k) \/ Work(k) \/ Tell(k)

ServiceSpec == ServiceInit /\ [][ServiceNext]_serviceVars

=============================================================================

--------------------------- MODULE CatalogProofs ----------------------------
(***************************************************************************)
(* Proofs about CatalogScreen: the lists of master data, for any number of  *)
(* entries and of handlers that run at a time.                             *)
(***************************************************************************)
EXTENDS CatalogScreen, TLAPS

Waits(q) == q.pc \in {"stored", "asked"}

(* The entry was changed by a handler whose list is still to be asked for or read, *)
WillBeRead(e) ==
  \E c \in Caller : Waits(pending[c]) /\ pending[c].entry = e

(* or by one that holds a list and is among S. *)
Brought(e, S) == \E c \in S : pending[c].entry = e

(* What a list lacks, a handler is about to bring: one of S, whose lists are newer. *)
UpToDate(list, S) ==
  \A e \in Entry : e \in missed \/ list[e] = held[e] \/ WillBeRead(e) \/ Brought(e, S)

CatalogShape ==
  /\ DOMAIN pending = Caller
  /\ DOMAIN held = Entry
  /\ fresh \in SUBSET Caller
  /\ newer \in [Caller -> SUBSET Caller]

(* "newer" is the order in which the lists held were read. *)
ReadInOrder ==
  /\ \A c \in fresh : pending[c].pc = "read" /\ newer[c] \subseteq fresh
  /\ \A c \in Caller, d \in Caller : d \in newer[c] =>
       /\ pending[d].pc = "read"
       /\ c \notin newer[d]
       /\ newer[d] \subseteq newer[c]

(* The inductive invariant. *)
CatalogInv ==
  /\ CatalogShape
  /\ ReadInOrder
  /\ older \/ UpToDate(shown, fresh)
  /\ \A c \in fresh : UpToDate(pending[c].content, newer[c])

LEMMA CatalogInitInv == CatalogInit => CatalogInv
  BY DEF CatalogInit, CatalogInv, CatalogShape, ReadInOrder, UpToDate

(* A handler that starts or moves on without reading, or the buttons of a row. *)
LEMMA CatalogMove ==
  ASSUME CatalogInv, NEW c \in Caller, NEW q,
         pending[c].pc # "read", q.pc # "read",
         Waits(pending[c]) => Waits(q) /\ q.entry = pending[c].entry,
         pending' = [pending EXCEPT ![c] = q],
         UNCHANGED <<held, shown, fresh, newer, older, missed>>
  PROVE  CatalogInv'
<1>1. pending'[c] = q /\ \A d \in Caller \ {c} : pending'[d] = pending[d]
  BY DEF CatalogInv, CatalogShape
<1>2. CatalogShape'
  BY DEF CatalogInv, CatalogShape
<1>3. c \notin fresh /\ \A d \in Caller : c \notin newer[d]
  BY DEF CatalogInv, ReadInOrder
<1>4. ReadInOrder'
  BY <1>1, <1>3 DEF CatalogInv, CatalogShape, ReadInOrder
<1>5. \A e \in Entry : WillBeRead(e) => WillBeRead(e)'
  BY <1>1 DEF WillBeRead, Waits
<1>6. ASSUME NEW list, NEW S \in SUBSET Caller, c \notin S, UpToDate(list, S)
      PROVE  \A e \in Entry : e \in missed \/ list[e] = held[e] \/ WillBeRead(e)'
                              \/ \E d \in S : pending'[d].entry = e
  BY <1>1, <1>5, <1>6 DEF UpToDate, Brought
<1>7. older' \/ UpToDate(shown, fresh)'
  BY <1>3, <1>6 DEF CatalogInv, CatalogShape, UpToDate, Brought
<1>8. ASSUME NEW d \in fresh
      PROVE  UpToDate(pending[d].content, newer[d])'
  <2>1. d # c /\ pending'[d] = pending[d] /\ newer[d] \in SUBSET Caller /\ c \notin newer[d]
    BY <1>1, <1>3 DEF CatalogInv, CatalogShape
  <2> QED
    BY <1>6, <2>1 DEF CatalogInv, UpToDate, Brought
<1> QED
  BY <1>2, <1>4, <1>7, <1>8 DEF CatalogInv

LEMMA CatalogUntouched ==
  ASSUME CatalogInv, UNCHANGED <<held, shown, pending, fresh, newer, older, missed>>
  PROVE  CatalogInv'
  BY DEF CatalogInv, CatalogShape, ReadInOrder, UpToDate, WillBeRead, Brought

(* A change is stored and the list is still to be asked for. *)
LEMMA CatalogStored ==
  ASSUME CatalogInv, NEW c \in Caller, NEW q, NEW e,
         pending[c].pc = "sent", q.pc = "stored", q.entry = e,
         pending' = [pending EXCEPT ![c] = q],
         DOMAIN held' = Entry, \A x \in Entry : x # e => held'[x] = held[x],
         UNCHANGED <<shown, fresh, newer, older, missed>>
  PROVE  CatalogInv'
<1>1. pending'[c] = q /\ \A d \in Caller \ {c} : pending'[d] = pending[d]
  BY DEF CatalogInv, CatalogShape
<1>2. CatalogShape'
  BY DEF CatalogInv, CatalogShape
<1>3. c \notin fresh /\ \A d \in Caller : c \notin newer[d]
  BY DEF CatalogInv, ReadInOrder
<1>4. ReadInOrder'
  BY <1>1, <1>3 DEF CatalogInv, CatalogShape, ReadInOrder
<1>5. WillBeRead(e)' /\ \A x \in Entry : WillBeRead(x) => WillBeRead(x)'
  BY <1>1 DEF WillBeRead, Waits
<1>6. ASSUME NEW list, NEW S \in SUBSET Caller, c \notin S, UpToDate(list, S)
      PROVE  \A x \in Entry : x \in missed \/ list[x] = held'[x] \/ WillBeRead(x)'
                              \/ \E d \in S : pending'[d].entry = x
  BY <1>1, <1>5, <1>6 DEF UpToDate, Brought
<1>7. older' \/ UpToDate(shown, fresh)'
  BY <1>3, <1>6 DEF CatalogInv, CatalogShape, UpToDate, Brought
<1>8. ASSUME NEW d \in fresh
      PROVE  UpToDate(pending[d].content, newer[d])'
  <2>1. d # c /\ pending'[d] = pending[d] /\ newer[d] \in SUBSET Caller /\ c \notin newer[d]
    BY <1>1, <1>3 DEF CatalogInv, CatalogShape
  <2> QED
    BY <1>6, <2>1 DEF CatalogInv, UpToDate, Brought
<1> QED
  BY <1>2, <1>4, <1>7, <1>8 DEF CatalogInv

(* A handler gets a list: of all that is held, later than those who hold one. *)
LEMMA CatalogRead ==
  ASSUME CatalogInv, NEW c \in Caller, NEW q,
         pending[c].pc # "read", q.pc = "read", q.content = held',
         q.entry = pending[c].entry, pending' = [pending EXCEPT ![c] = q],
         DOMAIN held' = Entry, \A x \in Entry : x # q.entry => held'[x] = held[x],
         HasRead(c), UNCHANGED <<shown, older, missed>>
  PROVE  CatalogInv'
<1>1. pending'[c] = q /\ \A d \in Caller \ {c} : pending'[d] = pending[d]
  BY DEF CatalogInv, CatalogShape
<1>2. CatalogShape'
  BY DEF CatalogInv, CatalogShape, HasRead
<1>3. c \notin fresh /\ newer'[c] = {} /\ fresh' = fresh \cup {c}
  BY DEF CatalogInv, ReadInOrder, HasRead
<1>4. \A d \in Caller : newer'[d] = IF pending[d].pc = "read" THEN newer[d] \cup {c} ELSE {}
  BY DEF HasRead
<1>5. ReadInOrder'
  <2>1. ASSUME NEW d \in fresh'
        PROVE  pending'[d].pc = "read" /\ newer'[d] \subseteq fresh'
    <3>1. CASE d = c
      BY <1>1, <1>3, <3>1
    <3>2. CASE d # c
      <4>1. /\ d \in fresh /\ d \in Caller
            /\ pending[d].pc = "read" /\ newer[d] \subseteq fresh
        BY <1>3, <3>2 DEF CatalogInv, CatalogShape, ReadInOrder
      <4> QED
        BY <1>1, <1>3, <1>4, <3>2, <4>1
    <3> QED
      BY <3>1, <3>2
  <2>2. ASSUME NEW a \in Caller, NEW d \in Caller, d \in newer'[a]
        PROVE  /\ pending'[d].pc = "read"
               /\ a \notin newer'[d]
               /\ newer'[d] \subseteq newer'[a]
    <3>1. pending[a].pc = "read" /\ a # c /\ newer'[a] = newer[a] \cup {c}
      BY <1>4, <2>2
    <3>2. CASE d = c
      BY <1>1, <1>3, <3>2
    <3>3. CASE d # c
      <4>1. d \in newer[a]
        BY <3>1, <2>2, <3>3
      <4>2. pending[d].pc = "read" /\ a \notin newer[d] /\ newer[d] \subseteq newer[a]
        BY <4>1 DEF CatalogInv, ReadInOrder
      <4> QED
        BY <1>1, <1>4, <3>1, <3>3, <4>2
    <3> QED
      BY <3>2, <3>3
  <2> QED
    BY <2>1, <2>2 DEF ReadInOrder
<1>6. \A x \in Entry : WillBeRead(x) => x = q.entry \/ WillBeRead(x)'
  BY <1>1 DEF WillBeRead, Waits
<1>7. ASSUME NEW list, NEW S \in SUBSET Caller, c \notin S, UpToDate(list, S)
      PROVE  \A x \in Entry : x \in missed \/ list[x] = held'[x] \/ WillBeRead(x)'
                              \/ \E d \in S \cup {c} : pending'[d].entry = x
  <2>1. SUFFICES ASSUME NEW x \in Entry, x # q.entry
                 PROVE  x \in missed \/ list[x] = held'[x] \/ WillBeRead(x)'
                        \/ \E d \in S : pending'[d].entry = x
    BY <1>1
  <2>2. x \in missed \/ list[x] = held[x] \/ WillBeRead(x) \/ \E d \in S : pending[d].entry = x
    BY <1>7 DEF UpToDate, Brought
  <2> QED
    BY <1>1, <1>6, <1>7, <2>1, <2>2
<1>8. older' \/ UpToDate(shown, fresh)'
  BY <1>3, <1>7 DEF CatalogInv, CatalogShape, UpToDate, Brought
<1>9. ASSUME NEW d \in fresh'
      PROVE  UpToDate(pending[d].content, newer[d])'
  <2>1. CASE d = c
    BY <1>1, <2>1 DEF UpToDate
  <2>2. CASE d # c
    <3>1. /\ d \in fresh /\ d \in Caller /\ pending'[d] = pending[d]
          /\ newer[d] \in SUBSET Caller /\ c \notin newer[d]
          /\ newer'[d] = newer[d] \cup {c}
      BY <1>1, <1>3, <1>4, <2>2 DEF CatalogInv, CatalogShape, ReadInOrder
    <3> QED
      BY <1>7, <3>1 DEF CatalogInv, UpToDate, Brought
  <2> QED
    BY <2>1, <2>2
<1> QED
  BY <1>2, <1>5, <1>8, <1>9 DEF CatalogInv

(* A handler ends, and its list was shown, was overtaken, or is given up. *)
LEMMA CatalogEnded ==
  ASSUME CatalogInv, NEW c \in Caller, NEW q, q.pc = "idle",
         pending' = [pending EXCEPT ![c] = q], HasEnded(c), held' = held,
         \/ /\ c \in fresh /\ shown' = pending[c].content
            /\ fresh' = newer[c] /\ missed' = missed
         \/ /\ pending[c].pc = "read" /\ c \notin fresh /\ older'
            /\ fresh' = fresh /\ missed' = missed
         \/ /\ fresh' = fresh \ {c} /\ shown' = shown /\ older' = older
            /\ missed \subseteq missed'
            /\ pending[c].pc \in {"stored", "asked", "read"} => pending[c].entry \in missed'
  PROVE  CatalogInv'
<1>1. pending'[c] = q /\ \A d \in Caller \ {c} : pending'[d] = pending[d]
  BY DEF CatalogInv, CatalogShape
<1>2. /\ \A d \in Caller : newer[d] \in SUBSET Caller
      /\ \A d \in Caller : newer'[d] = IF d = c THEN {} ELSE newer[d] \ {c}
  BY DEF CatalogInv, CatalogShape, HasEnded
<1>3. fresh' \subseteq fresh /\ c \notin fresh' /\ fresh' \in SUBSET Caller
  BY DEF CatalogInv, CatalogShape, ReadInOrder
<1>4. CatalogShape'
  BY <1>2, <1>3 DEF CatalogInv, CatalogShape, HasEnded
<1>5. ReadInOrder'
  <2>1. \A d \in fresh' : newer[d] \ {c} \subseteq fresh'
    BY <1>3 DEF CatalogInv, CatalogShape, ReadInOrder
  <2>2. ASSUME NEW d \in fresh'
        PROVE  pending'[d].pc = "read" /\ newer'[d] \subseteq fresh'
    <3>1. d \in fresh /\ d \in Caller /\ d # c /\ pending[d].pc = "read"
      BY <1>3 DEF CatalogInv, CatalogShape, ReadInOrder
    <3> QED
      BY <1>1, <1>2, <2>1, <3>1
  <2>3. ASSUME NEW a \in Caller, NEW d \in Caller, d \in newer'[a]
        PROVE  /\ pending'[d].pc = "read"
               /\ a \notin newer'[d]
               /\ newer'[d] \subseteq newer'[a]
    <3>1. a # c /\ d # c /\ d \in newer[a]
      BY <1>2, <2>3
    <3>2. pending[d].pc = "read" /\ a \notin newer[d] /\ newer[d] \subseteq newer[a]
      BY <3>1 DEF CatalogInv, ReadInOrder
    <3> QED
      BY <1>1, <1>2, <3>1, <3>2
  <2> QED
    BY <2>2, <2>3 DEF ReadInOrder
<1>6. ASSUME NEW list, NEW S \in SUBSET Caller, UpToDate(list, S), S \subseteq fresh,
             c \in S => pending[c].entry \in missed'
      PROVE  \A x \in Entry : x \in missed' \/ list[x] = held'[x] \/ WillBeRead(x)'
                              \/ \E d \in S \ {c} : pending'[d].entry = x
  <2> SUFFICES ASSUME NEW x \in Entry, x \notin missed', list[x] # held'[x]
               PROVE  WillBeRead(x)' \/ \E d \in S \ {c} : pending'[d].entry = x
    OBVIOUS
  <2>1. x \notin missed /\ list[x] # held[x]
    OBVIOUS
  <2>2. WillBeRead(x) \/ \E d \in S : pending[d].entry = x
    BY <1>6, <2>1 DEF UpToDate, Brought
  <2>3. CASE WillBeRead(x)
    <3>1. PICK d \in Caller : pending[d].pc \in {"stored", "asked"} /\ pending[d].entry = x
      BY <2>3 DEF WillBeRead, Waits
    <3>2. d # c
      BY <3>1 DEF CatalogInv, ReadInOrder
    <3> QED
      BY <1>1, <3>1, <3>2 DEF WillBeRead, Waits
  <2>4. CASE \E d \in S : pending[d].entry = x
    BY <1>1, <1>6, <2>4
  <2> QED
    BY <2>2, <2>3, <2>4
<1>7. older' \/ UpToDate(shown, fresh)'
  <2>1. CASE c \in fresh /\ shown' = pending[c].content /\ fresh' = newer[c]
    <3>1. /\ UpToDate(pending[c].content, newer[c]) /\ newer[c] \subseteq fresh
          /\ newer[c] \in SUBSET Caller /\ c \notin newer[c]
      BY <1>2, <1>3, <2>1 DEF CatalogInv, ReadInOrder
    <3> QED
      BY <1>6, <2>1, <3>1 DEF UpToDate, Brought
  <2>2. CASE /\ fresh' = fresh \ {c} /\ shown' = shown /\ older' = older
             /\ pending[c].pc \in {"stored", "asked", "read"} => pending[c].entry \in missed'
    <3>1. c \in fresh => pending[c].entry \in missed'
      BY <2>2 DEF CatalogInv, ReadInOrder
    <3>2. older \/ UpToDate(shown, fresh)
      BY DEF CatalogInv
    <3>3. fresh \in SUBSET Caller
      BY DEF CatalogInv, CatalogShape
    <3> QED
      BY <1>6, <2>2, <3>1, <3>2, <3>3 DEF UpToDate, Brought
  <2> QED
    BY <2>1, <2>2
<1>8. ASSUME NEW d \in fresh'
      PROVE  UpToDate(pending[d].content, newer[d])'
  <2>1. /\ d # c /\ d \in Caller /\ d \in fresh /\ pending'[d] = pending[d]
        /\ newer'[d] = newer[d] \ {c} /\ newer[d] \in SUBSET Caller
        /\ newer[d] \subseteq fresh /\ UpToDate(pending[d].content, newer[d])
    BY <1>1, <1>2, <1>3 DEF CatalogInv, ReadInOrder
  <2>2. c \in newer[d] => pending[c].entry \in missed'
    BY <1>3, <2>1 DEF CatalogInv, CatalogShape, ReadInOrder
  <2>3. \A x \in Entry : x \in missed' \/ pending[d].content[x] = held'[x] \/ WillBeRead(x)'
                         \/ \E a \in newer[d] \ {c} : pending'[a].entry = x
    BY <1>6, <2>1, <2>2
  <2> QED
    BY <2>1, <2>3 DEF UpToDate, Brought
<1> QED
  BY <1>4, <1>5, <1>7, <1>8 DEF CatalogInv

(* The request of any button is a handler that starts. *)
LEMMA CatalogRequest ==
  ASSUME CatalogInv, NEW c \in Caller, NEW e, NEW change, Request(c, e, change)
  PROVE  CatalogInv'
<1> DEFINE q == [pc |-> "sent", entry |-> e, change |-> change]
<1>1. q.pc = "sent" /\ pending[c].pc = "idle" /\ pending' = [pending EXCEPT ![c] = q]
  BY DEF Request, Running
<1>2. UNCHANGED <<held, shown, fresh, newer, older, missed>>
  BY DEF Request
<1>3. /\ pending[c].pc # "read" /\ q.pc # "read"
      /\ Waits(pending[c]) => Waits(q) /\ q.entry = pending[c].entry
  BY <1>1 DEF Waits
<1> HIDE DEF q
<1> QED
  BY <1>1, <1>2, <1>3, CatalogMove

LEMMA CatalogNextInv ==
  ASSUME CatalogInv, [CatalogNext]_catalogVars
  PROVE  CatalogInv'
<1>1. CASE UNCHANGED catalogVars
  BY <1>1, CatalogUntouched DEF catalogVars
<1>2. CASE CloseRow \/ \E e \in Entry : OpenRow(e)
  BY <1>2, CatalogUntouched DEF CloseRow, OpenRow
<1>3. ASSUME NEW c \in Caller,
             \/ \E e \in Entry : ToggleEntry(c, e) \/ \E t \in Title : CreateEntry(c, e, t)
             \/ \E t \in Title : SaveEntry(c, t) \/ RenameWarehouse(c, t)
             \/ ToggleWarehouse(c)
      PROVE  CatalogInv'
  BY <1>3, CatalogRequest
    DEF ToggleEntry, CreateEntry, SaveEntry, RenameWarehouse, ToggleWarehouse
<1>4. ASSUME NEW c \in Caller, StoreEntry(c)
      PROVE  CatalogInv'
  <2> DEFINE e == pending[c].entry
             change == pending[c].change
             stored == [pc |-> "stored", entry |-> e, edit |-> DOMAIN change = {"title"}]
             read == [pc |-> "read", entry |-> e, content |-> held']
  <2>1. /\ pending[c].pc = "sent"
        /\ held' = [held EXCEPT ![e] = Merged(@, change)]
        /\ UNCHANGED <<shown, older, missed>>
    BY <1>4 DEF StoreEntry
  <2>2. DOMAIN held' = Entry /\ \A x \in Entry : x # e => held'[x] = held[x]
    BY <2>1 DEF CatalogInv, CatalogShape
  <2>3. CASE Reloads(e)
    <3>1. pending' = [pending EXCEPT ![c] = stored] /\ UNCHANGED <<fresh, newer>>
      BY <1>4, <2>3 DEF StoreEntry
    <3>2. stored.pc = "stored" /\ stored.entry = e
      OBVIOUS
    <3> HIDE DEF stored, e
    <3> QED
      BY <2>1, <2>2, <3>1, <3>2, CatalogStored
  <2>4. CASE ~Reloads(e)
    <3>1. pending' = [pending EXCEPT ![c] = read] /\ HasRead(c)
      BY <1>4, <2>4 DEF StoreEntry
    <3>2. read.pc = "read" /\ read.entry = pending[c].entry /\ read.content = held'
      OBVIOUS
    <3>3. \A x \in Entry : x # read.entry => held'[x] = held[x]
      BY <2>2
    <3>4. pending[c].pc # "read"
      BY <2>1
    <3> HIDE DEF read, e
    <3> QED
      BY <2>1, <2>2, <3>1, <3>2, <3>3, <3>4, CatalogRead
  <2> QED
    BY <2>3, <2>4
<1>5. ASSUME NEW c \in Caller, AskAgain(c)
      PROVE  CatalogInv'
  <2> DEFINE q == [pc |-> "asked", entry |-> pending[c].entry]
  <2>1. /\ pending[c].pc = "stored" /\ pending' = [pending EXCEPT ![c] = q]
        /\ UNCHANGED <<held, shown, fresh, newer, older, missed>>
    BY <1>5 DEF AskAgain
  <2>2. /\ pending[c].pc # "read" /\ q.pc # "read"
        /\ Waits(pending[c]) => Waits(q) /\ q.entry = pending[c].entry
    BY <2>1 DEF Waits
  <2> HIDE DEF q
  <2> QED
    BY <2>1, <2>2, CatalogMove
<1>6. ASSUME NEW c \in Caller, ReadEntries(c)
      PROVE  CatalogInv'
  <2> DEFINE q == [pc |-> "read", entry |-> pending[c].entry, content |-> held']
  <2>1. /\ pending[c].pc = "asked" /\ pending' = [pending EXCEPT ![c] = q]
        /\ HasRead(c) /\ UNCHANGED <<held, shown, older, missed>>
    BY <1>6 DEF ReadEntries
  <2>2. q.pc = "read" /\ q.entry = pending[c].entry /\ q.content = held'
    OBVIOUS
  <2>3. DOMAIN held' = Entry /\ \A x \in Entry : x # q.entry => held'[x] = held[x]
    BY <2>1 DEF CatalogInv, CatalogShape
  <2>4. pending[c].pc # "read"
    BY <2>1
  <2> HIDE DEF q
  <2> QED
    BY <2>1, <2>2, <2>3, <2>4, CatalogRead
<1>7. ASSUME NEW c \in Caller, ShowEntries(c)
      PROVE  CatalogInv'
  <2>1. /\ pending[c].pc = "read" /\ shown' = pending[c].content
        /\ older' = (c \notin fresh)
        /\ fresh' = IF c \in fresh THEN newer[c] ELSE fresh
        /\ HasEnded(c) /\ pending' = [pending EXCEPT ![c] = NotPending]
        /\ UNCHANGED <<held, missed>>
    BY <1>7 DEF ShowEntries, Displayed
  <2>2. NotPending.pc = "idle"
    BY DEF NotPending
  <2> HIDE DEF NotPending
  <2> QED
    BY <2>1, <2>2, CatalogEnded
<1>8. ASSUME NEW c \in Caller, FailRequest(c)
      PROVE  CatalogInv'
  <2>1. /\ missed' = IF pending[c].pc = "sent" THEN missed ELSE missed \cup {pending[c].entry}
        /\ fresh' = fresh \ {c}
        /\ HasEnded(c) /\ pending' = [pending EXCEPT ![c] = NotPending]
        /\ UNCHANGED <<held, shown, older>>
    BY <1>8 DEF FailRequest
  <2>2. NotPending.pc = "idle"
    BY DEF NotPending
  <2>3. /\ missed \subseteq missed'
        /\ pending[c].pc \in {"stored", "asked", "read"} => pending[c].entry \in missed'
    BY <2>1
  <2> QED
    BY <2>1, <2>2, <2>3, CatalogEnded
<1> QED
  BY <1>1, <1>2, <1>3, <1>4, <1>5, <1>6, <1>7, <1>8 DEF CatalogNext

(* When no handler runs there is no list that is still to come. *)
LEMMA CatalogIdle ==
  ASSUME CatalogInv
  PROVE  EntriesShown
<1> SUFFICES ASSUME ~older, Running = {}
             PROVE  \A e \in Entry : e \in missed \/ shown[e] = held[e]
  BY DEF EntriesShown
<1>1. \A c \in Caller : pending[c].pc = "idle"
  BY DEF Running
<1>2. \A e \in Entry : ~WillBeRead(e)
  BY <1>1 DEF WillBeRead, Waits
<1>3. fresh = {}
  BY <1>1 DEF CatalogInv, CatalogShape, ReadInOrder
<1> QED
  BY <1>2, <1>3 DEF CatalogInv, UpToDate, Brought

(* Once every handler of a page of master data has ended, the page shows what the server   *)
(* holds, for any number of changes that ran together: in whatever order they were stored    *)
(* and their lists read and shown, unless an overtaken list was shown last or a stored        *)
(* change was reported as failed.                                                         *)
THEOREM EntriesCorrect == CatalogSpec => []EntriesShown
<1>1. CatalogInit => CatalogInv
  BY CatalogInitInv
<1>2. CatalogInv /\ [CatalogNext]_catalogVars => CatalogInv'
  BY CatalogNextInv
<1>3. CatalogInv => EntriesShown
  BY CatalogIdle
<1> QED
  BY <1>1, <1>2, <1>3, PTL DEF CatalogSpec
=============================================================================

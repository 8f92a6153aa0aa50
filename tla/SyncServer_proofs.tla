------------------------- MODULE SyncServer_proofs -------------------------
(***************************************************************************)
(* For any number of clients, profiles and names, any channel and any      *)
(* number of uploads: type correctness, WsConverges and FileWhole.         *)
(***************************************************************************)
EXTENDS SyncServer, TLAPS

-----------------------------------------------------------------------------
(* Types, in the parts the actions change together. *)

ClipType == current \in Profiles \cup {Empty} /\ sent \in Seq(Profiles) /\ untold \in BOOLEAN
ConnType ==
    /\ conn \in [Conns -> {"off", "acked", "live"}]
    /\ cursor \in [Conns -> 0..Len(sent)]
    /\ shown \in [Conns -> Profiles \cup {Empty, None}]
    /\ pending \in [Conns -> Names \cup {None}]
WriterType == writer \in [Conns -> Writer \cup {None}]
OnlyLiveWrite == \A c \in Conns : writer[c] # None => conn[c] = "live"
StoreType ==
    /\ tmp \in Content \cup {None}
    /\ file \in [Names -> Content \cup {None}]
    /\ suspect \subseteq Names

LEMMA TypeParts ==
    TypeOK <=> up \in BOOLEAN /\ ClipType /\ ConnType /\ WriterType /\ OnlyLiveWrite /\ StoreType
  BY DEF TypeOK, ClipType, ConnType, WriterType, OnlyLiveWrite, StoreType

LEMMA TypePartsNext ==
    TypeOK' <=> /\ up' \in BOOLEAN /\ ClipType' /\ ConnType'
                /\ WriterType' /\ OnlyLiveWrite' /\ StoreType'
  BY DEF TypeOK, ClipType, ConnType, WriterType, OnlyLiveWrite, StoreType

LEMMA InitType == Init => TypeOK
  <1> SUFFICES ASSUME Init PROVE TypeOK
    OBVIOUS
  <1>1. up \in BOOLEAN /\ ClipType
    <2>1. up \in BOOLEAN /\ untold \in BOOLEAN
      BY DEF Init
    <2>2. sent \in Seq(Profiles)
      BY DEF Init
    <2> QED BY <2>1, <2>2 DEF Init, ClipType
  <1>2. ConnType
    <2>1. Len(sent) = 0
      BY DEF Init
    <2>2. cursor \in [Conns -> 0..Len(sent)]
      BY <2>1 DEF Init
    <2>3. shown \in [Conns -> Profiles \cup {Empty, None}] /\ pending \in [Conns -> Names \cup {None}]
      BY DEF Init
    <2>4. conn \in [Conns -> {"off", "acked", "live"}]
      BY DEF Init
    <2> QED BY <2>2, <2>3, <2>4 DEF ConnType
  <1>3. WriterType /\ OnlyLiveWrite /\ StoreType
    BY DEF Init, WriterType, OnlyLiveWrite, StoreType
  <1> QED BY <1>1, <1>2, <1>3, TypeParts

(* What a step leaves alone keeps its type. *)
LEMMA Frame ==
    ASSUME TypeOK
    PROVE  /\ UNCHANGED up => up' \in BOOLEAN
           /\ UNCHANGED clipVars => ClipType'
           /\ UNCHANGED connVars /\ UNCHANGED sent => ConnType'
           /\ UNCHANGED writer => WriterType'
           /\ UNCHANGED conn /\ UNCHANGED writer => OnlyLiveWrite'
           /\ UNCHANGED <<tmp, file, suspect>> => StoreType'
  <1>1. UNCHANGED up => up' \in BOOLEAN
    BY DEF TypeOK
  <1>2. UNCHANGED clipVars => ClipType'
    BY TypeParts DEF ClipType, clipVars
  <1>3. UNCHANGED connVars /\ UNCHANGED sent => ConnType'
    BY TypeParts DEF ConnType, connVars
  <1>4. UNCHANGED writer => WriterType'
    BY TypeParts DEF WriterType
  <1>5. UNCHANGED conn /\ UNCHANGED writer => OnlyLiveWrite'
    BY TypeParts DEF OnlyLiveWrite
  <1>6. UNCHANGED <<tmp, file, suspect>> => StoreType'
    BY TypeParts DEF StoreType
  <1> QED BY <1>1, <1>2, <1>3, <1>4, <1>5, <1>6

(* An upload adds its event at the end. *)
LEMMA PutFacts ==
    ASSUME TypeOK, NEW p \in Profiles, Put(p)
    PROVE  /\ ClipType'
           /\ Len(sent) \in Nat /\ Len(sent') = Len(sent) + 1 /\ sent'[Len(sent')] = p
           /\ current' = p
           /\ UNCHANGED connVars => ConnType'
  <1>1. sent \in Seq(Profiles) /\ sent' = Append(sent, p) /\ current' = p /\ untold' = FALSE
    BY TypeParts DEF Put, ClipType
  <1>2. Len(sent) \in Nat /\ Len(sent') = Len(sent) + 1 /\ sent'[Len(sent')] = p
    BY <1>1
  <1>3. ClipType'
    <2>1. untold' \in BOOLEAN
      BY <1>1
    <2>2. sent' \in Seq(Profiles)
      BY <1>1
    <2> QED BY <1>1, <2>1, <2>2 DEF ClipType
  <1>4. UNCHANGED connVars => ConnType'
    <2> SUFFICES ASSUME UNCHANGED connVars PROVE ConnType'
      OBVIOUS
    <2>1. 0..Len(sent) \subseteq 0..Len(sent')
      BY <1>2
    <2>2. cursor' \in [Conns -> 0..Len(sent')]
      <3>1. cursor \in [Conns -> 0..Len(sent)] /\ cursor' = cursor
        BY TypeParts DEF ConnType, connVars
      <3> QED BY <2>1, <3>1
    <2> QED BY <2>2, TypeParts DEF ConnType, connVars
  <1> QED BY <1>1, <1>2, <1>3, <1>4

(* A connection that is closed leaves nothing behind. *)
LEMMA ClosedType ==
    ASSUME TypeOK, NEW c \in Conns, Closed(c), UNCHANGED sent
    PROVE  ConnType'
  <1>1. Len(sent) \in Nat
    BY TypeParts DEF ClipType
  <1>2. cursor' \in [Conns -> 0..Len(sent')]
    BY <1>1, TypeParts DEF Closed, ConnType
  <1> QED BY <1>2, TypeParts DEF Closed, ConnType

-----------------------------------------------------------------------------
(* What the steps of a connection write. *)

LEMMA NewWriter ==
    ASSUME NEW n \in Names, NEW s \in BOOLEAN
    PROVE  [name |-> n, at |-> "tmp", shared |-> s, done |-> FALSE] \in Writer
  BY DEF Writer

LEMMA WriterFields ==
    ASSUME TypeOK, NEW c \in Conns, writer[c] # None
    PROVE  /\ writer[c] \in Writer /\ writer[c].name \in Names
           /\ writer[c].at \in {"tmp"} \cup Names \cup {None}
           /\ writer[c].shared \in BOOLEAN /\ writer[c].done \in BOOLEAN
  <1>1. writer[c] \in Writer
    BY TypeParts DEF WriterType
  <1> QED BY <1>1 DEF Writer

LEMMA WrittenContent ==
    ASSUME TypeOK, NEW c \in Conns, writer[c] # None, NEW content \in Written(c)
    PROVE  /\ content \in Content /\ content.name = writer[c].name
           /\ ~writer[c].shared => content.whole
  <1>1. writer[c].name \in Names /\ writer[c].shared \in BOOLEAN
    BY WriterFields
  <1>2. PICK w \in {TRUE, ~writer[c].shared} : content = [name |-> writer[c].name, whole |-> w]
    BY DEF Written
  <1>3. w \in BOOLEAN /\ (~writer[c].shared => w)
    BY <1>1, <1>2
  <1> QED BY <1>1, <1>2, <1>3 DEF Content

(* The writers after a binary frame: one more, and all of them know of each other. *)
LEMMA BinaryWriters ==
    ASSUME TypeOK, NEW c \in Conns, Binary(c), pending[c] \in Names
    PROVE  /\ WriterType' /\ OnlyLiveWrite'
           /\ writer'[c].name = pending[c] /\ writer'[c].at = "tmp" /\ ~writer'[c].done
           /\ ~writer'[c].shared => \A d \in Conns \ {c} : writer[d] = None
           /\ \A d \in Conns \ {c} :
                  /\ writer[d] = None => writer'[d] = None
                  /\ writer[d] # None => writer'[d] = [writer[d] EXCEPT !.shared = TRUE]
  <1> DEFINE others == {d \in Conns : writer[d] # None}
             new == [name |-> pending[c], at |-> "tmp", shared |-> others # {}, done |-> FALSE]
  <1>1. /\ writer' = [d \in Conns |->
                CASE d = c -> new
                  [] d \in others -> [writer[d] EXCEPT !.shared = TRUE]
                  [] OTHER -> None]
        /\ writer[c] = None /\ conn[c] = "live" /\ conn' = conn
    BY DEF Binary, Live
  <1>2. new \in Writer
    <2>1. (others # {}) \in BOOLEAN
      OBVIOUS
    <2> QED BY <2>1, NewWriter
  <1>3. c \notin others
    BY <1>1
  <1>4. writer'[c] = new
    BY <1>1
  <1>5. ASSUME NEW d \in Conns \ {c}
        PROVE  /\ writer[d] = None => writer'[d] = None
               /\ writer[d] # None => writer'[d] = [writer[d] EXCEPT !.shared = TRUE]
    BY <1>1
  <1>6. \A d \in Conns : writer'[d] \in Writer \cup {None}
    <2> SUFFICES ASSUME NEW d \in Conns, d # c, writer[d] # None
                 PROVE  [writer[d] EXCEPT !.shared = TRUE] \in Writer
      BY <1>2, <1>4, <1>5
    <2> QED BY WriterFields DEF Writer
  <1>7. WriterType'
    BY <1>1, <1>6 DEF WriterType
  <1>8. OnlyLiveWrite'
    BY <1>1, <1>5, TypeParts DEF OnlyLiveWrite
  <1>9. /\ new.name = pending[c] /\ new.at = "tmp" /\ ~new.done
        /\ ~new.shared => others = {}
    OBVIOUS
  <1> QED BY <1>4, <1>5, <1>7, <1>8, <1>9

(* The writers after a rename. *)
LEMMA EndWriterFacts ==
    ASSUME TypeOK, NEW c \in Conns, NEW n \in Names, EndWriter(c, n)
    PROVE  /\ WriterType'
           /\ writer'[c] = None
           /\ \A d \in Conns : writer'[d] # None =>
                /\ d # c /\ writer[d] # None
                /\ writer'[d] = [writer[d] EXCEPT !.at = HandleAfterRename(@, n)]
  <1>1. \A d \in Conns :
            writer'[d] = IF d = c \/ writer[d] = None THEN None
                         ELSE [writer[d] EXCEPT !.at = HandleAfterRename(@, n)]
    BY DEF EndWriter
  <1>2. ASSUME NEW d \in Conns, d # c, writer[d] # None
        PROVE  [writer[d] EXCEPT !.at = HandleAfterRename(@, n)] \in Writer
    <2>1. writer[d] \in Writer /\ writer[d].at \in {"tmp"} \cup Names \cup {None}
      BY <1>2, WriterFields
    <2>2. HandleAfterRename(writer[d].at, n) \in {"tmp"} \cup Names \cup {None}
      BY <2>1 DEF HandleAfterRename
    <2> QED BY <2>1, <2>2 DEF Writer
  <1>3. \A d \in Conns : writer'[d] \in Writer \cup {None}
    BY <1>1, <1>2
  <1>4. WriterType'
    BY <1>3 DEF EndWriter, WriterType
  <1> QED BY <1>1, <1>4

-----------------------------------------------------------------------------
(* Every action keeps the types. *)

LEMMA ServerType == TypeOK /\ (ServerStarts \/ ServerDies) => TypeOK'
  <1> SUFFICES ASSUME TypeOK, ServerStarts \/ ServerDies PROVE TypeOK'
    OBVIOUS
  <1>1. CASE ServerStarts
    <2>1. up' \in BOOLEAN
      BY <1>1 DEF ServerStarts
    <2>2. /\ UNCHANGED clipVars /\ UNCHANGED connVars /\ UNCHANGED <<tmp, file, suspect>>
          /\ UNCHANGED writer /\ UNCHANGED conn /\ UNCHANGED sent
      BY <1>1 DEF ServerStarts, clipVars, connVars, fileVars
    <2> QED BY <2>1, <2>2, Frame, TypePartsNext
  <1>2. CASE ServerDies
    <2>1. up' \in BOOLEAN /\ untold' \in BOOLEAN
      BY <1>2 DEF ServerDies
    <2>2. sent' = <<>> /\ sent' \in Seq(Profiles) /\ Len(sent') = 0
      BY <1>2 DEF ServerDies
    <2>3. ClipType'
      BY <1>2, <2>1, <2>2, TypeParts DEF ServerDies, ClipType
    <2>4. cursor' \in [Conns -> 0..Len(sent')]
      BY <1>2, <2>2 DEF ServerDies
    <2>5. ConnType'
      BY <1>2, <2>4 DEF ServerDies, ConnType
    <2>6. WriterType' /\ OnlyLiveWrite'
      BY <1>2 DEF ServerDies, WriterType, OnlyLiveWrite
    <2>7. StoreType'
      BY <1>2, TypeParts DEF ServerDies, StoreType
    <2> QED BY <2>1, <2>3, <2>5, <2>6, <2>7, TypePartsNext
  <1> QED BY <1>1, <1>2

LEMMA HttpType ==
    ASSUME TypeOK, NEW p \in Profiles, HttpPut(p) \/ HttpPutDropped(p)
    PROVE  TypeOK'
  <1>1. /\ UNCHANGED up /\ UNCHANGED connVars /\ UNCHANGED writer /\ UNCHANGED conn
        /\ UNCHANGED <<tmp, file, suspect>>
    BY DEF HttpPut, HttpPutDropped, connVars, fileVars
  <1>2. ClipType' /\ ConnType'
    <2>1. CASE HttpPut(p)
      BY <1>1, <2>1, PutFacts DEF HttpPut
    <2>2. CASE HttpPutDropped(p)
      <3>1. current' = p /\ sent' = sent /\ untold' \in BOOLEAN
        BY <2>2 DEF HttpPutDropped
      <3>2. ClipType'
        BY <3>1, TypeParts DEF ClipType
      <3> QED BY <1>1, <3>1, <3>2, Frame
    <2> QED BY <2>1, <2>2
  <1> QED BY <1>1, <1>2, Frame, TypePartsNext

LEMMA ConnNextType ==
    ASSUME TypeOK, NEW c \in Conns, ConnNext(c)
    PROVE  TypeOK'
  <1>1. CASE Connect(c) \/ Subscribe(c)
    <2>1. /\ UNCHANGED up /\ UNCHANGED clipVars /\ UNCHANGED sent /\ UNCHANGED writer
          /\ UNCHANGED <<tmp, file, suspect>> /\ UNCHANGED <<shown, pending>>
      BY <1>1 DEF Connect, Subscribe, clipVars, fileVars
    <2>2. conn' \in [Conns -> {"off", "acked", "live"}] /\ (conn[c] # "live")
      BY <1>1, TypeParts DEF Connect, Subscribe, ConnType
    <2>3. cursor' \in [Conns -> 0..Len(sent')]
      <3>1. Len(sent) \in 0..Len(sent)
        BY TypeParts DEF ClipType
      <3> QED BY <1>1, <2>1, <3>1, TypeParts DEF Connect, Subscribe, ConnType
    <2>4. ConnType'
      BY <2>1, <2>2, <2>3, TypeParts DEF ConnType
    <2>5. OnlyLiveWrite'
      BY <1>1, <2>1, <2>2, TypeParts DEF Connect, Subscribe, OnlyLiveWrite, ConnType
    <2> QED BY <2>1, <2>4, <2>5, Frame, TypePartsNext
  <1>2. CASE Changed(c)
    <2>1. /\ UNCHANGED up /\ UNCHANGED clipVars /\ UNCHANGED sent /\ UNCHANGED writer
          /\ UNCHANGED <<tmp, file, suspect>> /\ UNCHANGED <<conn, pending>>
      BY <1>2 DEF Changed, clipVars, fileVars
    <2>2. cursor[c] + 1 \in 1..Len(sent) /\ sent[cursor[c] + 1] \in Profiles
      <3>1. cursor[c] \in 0..Len(sent) /\ cursor[c] < Len(sent) /\ sent \in Seq(Profiles)
        BY <1>2, TypeParts DEF Changed, ConnType, ClipType
      <3> QED BY <3>1
    <2>3. cursor' \in [Conns -> 0..Len(sent')]
      <3>1. cursor[c] + 1 \in 0..Len(sent)
        BY <2>2
      <3> QED BY <1>2, <2>1, <3>1, TypeParts DEF Changed, ConnType
    <2>4. shown' \in [Conns -> Profiles \cup {Empty, None}]
      BY <1>2, <2>2, TypeParts DEF Changed, ConnType
    <2>5. ConnType'
      BY <2>1, <2>3, <2>4, TypeParts DEF ConnType
    <2> QED BY <2>1, <2>5, Frame, TypePartsNext
  <1>3. CASE Lagged(c) \/ Leave(c)
    <2>1. /\ UNCHANGED up /\ UNCHANGED clipVars /\ UNCHANGED sent /\ UNCHANGED writer
          /\ UNCHANGED <<tmp, file, suspect>> /\ Closed(c)
      BY <1>3 DEF Lagged, Leave, clipVars, fileVars
    <2>2. writer[c] = None
      BY <1>3, TypeParts DEF Lagged, Leave, Live, OnlyLiveWrite
    <2>3. OnlyLiveWrite'
      BY <2>1, <2>2, TypeParts DEF OnlyLiveWrite, Closed, ConnType
    <2> QED BY <2>1, <2>3, ClosedType, Frame, TypePartsNext
  <1>4. ASSUME NEW p \in Profiles, WsSet(c, p) PROVE TypeOK'
    <2>1. /\ UNCHANGED up /\ UNCHANGED connVars /\ UNCHANGED writer /\ UNCHANGED conn
          /\ UNCHANGED <<tmp, file, suspect>> /\ Put(p)
      BY <1>4 DEF WsSet, connVars, fileVars
    <2> QED BY <2>1, PutFacts, Frame, TypePartsNext
  <1>5. CASE WsGet(c)
    <2>1. /\ UNCHANGED up /\ UNCHANGED clipVars /\ UNCHANGED sent /\ UNCHANGED writer
          /\ UNCHANGED <<tmp, file, suspect>> /\ UNCHANGED <<conn, cursor, pending>>
      BY <1>5 DEF WsGet, clipVars, fileVars
    <2>2. shown' \in [Conns -> Profiles \cup {Empty, None}]
      BY <1>5, TypeParts DEF WsGet, ConnType, ClipType
    <2>3. ConnType'
      BY <2>1, <2>2, TypeParts DEF ConnType
    <2> QED BY <2>1, <2>3, Frame, TypePartsNext
  <1>6. ASSUME NEW n \in Names \cup {None}, FileSet(c, n) PROVE TypeOK'
    <2>1. /\ UNCHANGED up /\ UNCHANGED clipVars /\ UNCHANGED sent /\ UNCHANGED writer
          /\ UNCHANGED <<tmp, file, suspect>> /\ UNCHANGED <<conn, cursor, shown>>
          /\ pending' = [pending EXCEPT ![c] = n]
      BY <1>6 DEF FileSet, clipVars, fileVars
    <2>2. ConnType'
      BY <2>1, TypeParts DEF ConnType
    <2> QED BY <2>1, <2>2, Frame, TypePartsNext
  <1>7. CASE Binary(c)
    <2>1. /\ UNCHANGED up /\ UNCHANGED clipVars /\ UNCHANGED sent
          /\ UNCHANGED <<file, suspect>> /\ UNCHANGED <<conn, cursor, shown>>
          /\ pending' = [pending EXCEPT ![c] = None]
      BY <1>7 DEF Binary, clipVars
    <2>2. ConnType'
      BY <2>1, TypeParts DEF ConnType
    <2>3. pending[c] \in Names
      BY <1>7, TypeParts DEF Binary, ConnType
    <2>4. StoreType'
      <3>1. tmp' \in Content
        BY <1>7, <2>3 DEF Binary, Content
      <3> QED BY <2>1, <3>1, TypeParts DEF StoreType
    <2>5. WriterType' /\ OnlyLiveWrite'
      BY <1>7, <2>1, <2>3, BinaryWriters
    <2> QED BY <2>1, <2>2, <2>4, <2>5, Frame, TypePartsNext
  <1>8. CASE FinishWrite(c)
    <2>1. /\ UNCHANGED up /\ UNCHANGED clipVars /\ UNCHANGED sent /\ UNCHANGED suspect
          /\ UNCHANGED connVars /\ UNCHANGED conn
          /\ writer[c] # None /\ writer' = [writer EXCEPT ![c].done = TRUE]
      BY <1>8 DEF FinishWrite, clipVars, connVars
    <2>2. PICK content \in Written(c) :
            /\ tmp' = IF writer[c].at = "tmp" THEN content ELSE tmp
            /\ file' = [n \in Names |-> IF writer[c].at = n THEN content ELSE file[n]]
      BY <1>8 DEF FinishWrite
    <2>3. content \in Content
      BY <2>1, WrittenContent
    <2>4. StoreType'
      <3>1. tmp' \in Content \cup {None}
        BY <2>2, <2>3, TypeParts DEF StoreType
      <3>2. file' \in [Names -> Content \cup {None}]
        BY <2>2, <2>3, TypeParts DEF StoreType
      <3> QED BY <2>1, <3>1, <3>2, TypeParts DEF StoreType
    <2>5. WriterType'
      <3>1. [writer[c] EXCEPT !.done = TRUE] \in Writer
        BY <2>1, WriterFields DEF Writer
      <3> QED BY <2>1, <3>1, TypeParts DEF WriterType
    <2>6. OnlyLiveWrite'
      BY <2>1, TypeParts DEF OnlyLiveWrite, WriterType
    <2> QED BY <2>1, <2>4, <2>5, <2>6, Frame, TypePartsNext
  <1>9. CASE Rename(c)
    <2>1. /\ UNCHANGED up /\ UNCHANGED clipVars /\ UNCHANGED sent
          /\ UNCHANGED connVars /\ UNCHANGED conn
          /\ writer[c] # None /\ tmp # None /\ EndWriter(c, writer[c].name)
          /\ file' = [file EXCEPT ![writer[c].name] = tmp] /\ tmp' = None
          /\ suspect' \in {suspect \cup {writer[c].name}, suspect \ {writer[c].name}}
      BY <1>9 DEF Rename, clipVars, connVars
    <2>2. writer[c].name \in Names
      BY <2>1, WriterFields
    <2>3. StoreType'
      BY <2>1, <2>2, TypeParts DEF StoreType
    <2>4. WriterType' /\ OnlyLiveWrite'
      BY <2>1, <2>2, EndWriterFacts, TypeParts DEF OnlyLiveWrite
    <2> QED BY <2>1, <2>3, <2>4, Frame, TypePartsNext
  <1>10. CASE PutFileFails(c)
    <2>1. /\ UNCHANGED up /\ UNCHANGED clipVars /\ UNCHANGED sent
          /\ UNCHANGED <<tmp, file, suspect>> /\ Closed(c)
          /\ writer' = [writer EXCEPT ![c] = None]
      BY <1>10 DEF PutFileFails, clipVars
    <2>2. WriterType'
      BY <2>1, TypeParts DEF WriterType
    <2>3. OnlyLiveWrite'
      BY <2>1, TypeParts DEF OnlyLiveWrite, WriterType, Closed, ConnType
    <2> QED BY <2>1, <2>2, <2>3, ClosedType, Frame, TypePartsNext
  <1> QED
    BY <1>1, <1>2, <1>3, <1>4, <1>5, <1>6, <1>7, <1>8, <1>9, <1>10 DEF ConnNext

LEMMA NextType == TypeOK /\ [Next]_vars => TypeOK'
  <1> SUFFICES ASSUME TypeOK, [Next]_vars PROVE TypeOK'
    OBVIOUS
  <1>1. CASE UNCHANGED vars
    <2>1. /\ UNCHANGED up /\ UNCHANGED clipVars /\ UNCHANGED sent /\ UNCHANGED writer
          /\ UNCHANGED <<tmp, file, suspect>> /\ UNCHANGED connVars /\ UNCHANGED conn
      BY <1>1 DEF vars, clipVars, connVars, fileVars
    <2> QED BY <2>1, Frame, TypePartsNext
  <1> QED BY <1>1, ServerType, HttpType, ConnNextType DEF Next

(* Type correctness, for any clients, profiles and names: a cursor is a place in the
   broadcast, and only a live connection is writing an attachment. *)
THEOREM TypeCorrect == Spec => []TypeOK
  BY InitType, NextType, PTL DEF Spec

-----------------------------------------------------------------------------
(* A client that has received everything was told the current profile. *)

(* The last event is the current profile; nothing is told before the subscription. *)
LastIsCurrent == sent # <<>> /\ ~untold => current = sent[Len(sent)]
ToldLive == \A c \in Conns : conn[c] # "live" => shown[c] = None
Converged(c) ==
    conn[c] = "live" /\ shown[c] # None /\ cursor[c] = Len(sent) /\ ~untold
        => shown[c] = current

ConvergeInv == LastIsCurrent /\ ToldLive /\ \A c \in Conns : Converged(c)

(* An upload leaves every client behind. *)
LEMMA PutConverges ==
    ASSUME TypeOK, ConvergeInv, NEW p \in Profiles, Put(p), UNCHANGED connVars
    PROVE  ConvergeInv'
  <1>1. /\ Len(sent) \in Nat /\ Len(sent') = Len(sent) + 1 /\ sent'[Len(sent')] = p
        /\ current' = p
    BY PutFacts
  <1>2. LastIsCurrent'
    BY <1>1 DEF LastIsCurrent
  <1>3. ToldLive'
    BY DEF ConvergeInv, ToldLive, connVars
  <1>4. ASSUME NEW c \in Conns PROVE Converged(c)'
    <2>1. cursor[c] \in 0..Len(sent) /\ cursor'[c] = cursor[c]
      BY TypeParts DEF ConnType, connVars
    <2>2. cursor'[c] # Len(sent')
      BY <1>1, <2>1
    <2> QED BY <2>2 DEF Converged
  <1> QED BY <1>2, <1>3, <1>4 DEF ConvergeInv

(* A step of one connection concerns that connection only. *)
LEMMA ConnConverges ==
    ASSUME TypeOK, ConvergeInv, NEW c \in Conns, UNCHANGED clipVars,
           \A d \in Conns \ {c} :
                conn'[d] = conn[d] /\ shown'[d] = shown[d] /\ cursor'[d] = cursor[d],
           conn'[c] # "live" => shown'[c] = None,
           Converged(c)'
    PROVE  ConvergeInv'
  <1>1. LastIsCurrent'
    BY DEF ConvergeInv, LastIsCurrent, clipVars
  <1>2. ToldLive'
    BY DEF ConvergeInv, ToldLive
  <1>3. ASSUME NEW d \in Conns PROVE Converged(d)'
    BY DEF ConvergeInv, Converged, clipVars
  <1> QED BY <1>1, <1>2, <1>3 DEF ConvergeInv

LEMMA SameConverges ==
    ASSUME ConvergeInv, UNCHANGED <<clipVars, conn, cursor, shown>>
    PROVE  ConvergeInv'
  BY DEF ConvergeInv, LastIsCurrent, ToldLive, Converged, clipVars

LEMMA ConnNextConverges ==
    ASSUME TypeOK, ConvergeInv, NEW c \in Conns, ConnNext(c)
    PROVE  ConvergeInv'
  <1>0. /\ conn \in [Conns -> {"off", "acked", "live"}]
        /\ cursor \in [Conns -> 0..Len(sent)]
        /\ shown \in [Conns -> Profiles \cup {Empty, None}]
    BY TypeParts DEF ConnType
  <1>1. CASE Connect(c) \/ Subscribe(c)
    <2>1. UNCHANGED clipVars /\ shown'[c] = None
      BY <1>1 DEF Connect, Subscribe, ConvergeInv, ToldLive
    <2>2. \A d \in Conns \ {c} :
            conn'[d] = conn[d] /\ shown'[d] = shown[d] /\ cursor'[d] = cursor[d]
      BY <1>0, <1>1 DEF Connect, Subscribe
    <2>3. Converged(c)'
      BY <2>1 DEF Converged
    <2> QED BY <2>1, <2>2, <2>3, ConnConverges
  <1>2. CASE Changed(c)
    <2>1. /\ UNCHANGED clipVars /\ UNCHANGED conn /\ conn[c] = "live"
          /\ shown'[c] = sent[cursor[c] + 1] /\ cursor'[c] = cursor[c] + 1
          /\ sent' = sent /\ untold' = untold /\ current' = current
          /\ cursor[c] < Len(sent)
      BY <1>0, <1>2 DEF Changed, Live, clipVars
    <2>2. \A d \in Conns \ {c} :
            conn'[d] = conn[d] /\ shown'[d] = shown[d] /\ cursor'[d] = cursor[d]
      BY <1>0, <1>2 DEF Changed
    <2>3. Converged(c)'
      <3> SUFFICES ASSUME cursor'[c] = Len(sent), ~untold PROVE shown'[c] = current
        BY <2>1 DEF Converged
      <3>1. sent # <<>>
        <4>1. cursor[c] \in 0..Len(sent)
          BY <1>0
        <4>2. Len(sent) > 0
          BY <2>1, <4>1
        <4> QED BY <4>2
      <3>2. current = sent[Len(sent)]
        BY <3>1 DEF ConvergeInv, LastIsCurrent
      <3> QED BY <2>1, <3>2
    <2> QED BY <2>1, <2>2, <2>3, ConnConverges
  <1>3. ASSUME Closed(c), UNCHANGED clipVars PROVE ConvergeInv'
    <2>1. conn'[c] = "off" /\ shown'[c] = None
      BY <1>0, <1>3 DEF Closed
    <2>2. \A d \in Conns \ {c} :
            conn'[d] = conn[d] /\ shown'[d] = shown[d] /\ cursor'[d] = cursor[d]
      BY <1>0, <1>3 DEF Closed
    <2>3. Converged(c)'
      BY <2>1 DEF Converged
    <2> QED BY <1>3, <2>1, <2>2, <2>3, ConnConverges
  <1>4. CASE Lagged(c) \/ Leave(c) \/ PutFileFails(c)
    BY <1>3, <1>4 DEF Lagged, Leave, PutFileFails
  <1>5. ASSUME NEW p \in Profiles, WsSet(c, p) PROVE ConvergeInv'
    BY <1>5, PutConverges DEF WsSet
  <1>6. CASE WsGet(c)
    <2>1. /\ UNCHANGED clipVars /\ UNCHANGED conn /\ conn[c] = "live"
          /\ shown'[c] = current /\ current' = current
      BY <1>0, <1>6 DEF WsGet, Live, clipVars
    <2>2. \A d \in Conns \ {c} :
            conn'[d] = conn[d] /\ shown'[d] = shown[d] /\ cursor'[d] = cursor[d]
      BY <1>0, <1>6 DEF WsGet
    <2>3. Converged(c)'
      BY <2>1 DEF Converged
    <2> QED BY <2>1, <2>2, <2>3, ConnConverges
  <1>7. ASSUME NEW n \in Names \cup {None}, FileSet(c, n) PROVE ConvergeInv'
    BY <1>7, SameConverges DEF FileSet
  <1>8. CASE Binary(c) \/ FinishWrite(c) \/ Rename(c)
    BY <1>8, SameConverges DEF Binary, FinishWrite, Rename, connVars, clipVars
  <1> QED
    BY <1>1, <1>2, <1>4, <1>5, <1>6, <1>7, <1>8 DEF ConnNext

LEMMA NextConverges == TypeOK /\ ConvergeInv /\ [Next]_vars => ConvergeInv'
  <1> SUFFICES ASSUME TypeOK, ConvergeInv, [Next]_vars PROVE ConvergeInv'
    OBVIOUS
  <1>1. CASE ServerStarts \/ UNCHANGED vars
    BY <1>1, SameConverges DEF ServerStarts, vars, clipVars, connVars
  <1>2. CASE ServerDies
    <2>1. LastIsCurrent'
      BY <1>2 DEF ServerDies, LastIsCurrent
    <2>2. ToldLive' /\ \A c \in Conns : Converged(c)'
      BY <1>2 DEF ServerDies, ToldLive, Converged
    <2> QED BY <2>1, <2>2 DEF ConvergeInv
  <1>3. ASSUME NEW p \in Profiles, HttpPut(p) PROVE ConvergeInv'
    BY <1>3, PutConverges DEF HttpPut
  <1>4. ASSUME NEW p \in Profiles, HttpPutDropped(p) PROVE ConvergeInv'
    <2>1. untold' /\ UNCHANGED connVars
      BY <1>4 DEF HttpPutDropped
    <2> QED BY <2>1 DEF ConvergeInv, LastIsCurrent, ToldLive, Converged, connVars
  <1> QED BY <1>1, <1>2, <1>3, <1>4, ConnNextConverges DEF Next

(* Whatever snapshots and changes, uploads over either protocol, reconnects and lags
   there were, a client that has received every event was last told the profile that is
   current, or nothing yet: subscription and snapshot cannot miss each other. *)
THEOREM WsConvergesAlways == Spec => []WsConverges
  <1>1. Init => ConvergeInv
    BY DEF Init, ConvergeInv, LastIsCurrent, ToldLive, Converged
  <1>2. Spec => [](TypeOK /\ ConvergeInv)
    BY <1>1, InitType, NextType, NextConverges, PTL DEF Spec
  <1>3. ConvergeInv => WsConverges
    BY DEF ConvergeInv, Converged, WsConverges
  <1> QED BY <1>2, <1>3, PTL

-----------------------------------------------------------------------------
(* An attachment is the whole of one upload. *)

(* A put that has met no other one is the only one, and the temporary file is its. *)
Alone(c) ==
    writer[c] # None /\ ~writer[c].shared =>
        /\ \A d \in Conns \ {c} : writer[d] = None
        /\ writer[c].at = "tmp" /\ tmp.name = writer[c].name
        /\ writer[c].done => tmp.whole

(* A file somebody still writes into was renamed by a put that met another. *)
Suspected(c) == writer[c] # None /\ writer[c].at \in Names => writer[c].at \in suspect

FileInv == FileWhole /\ \A c \in Conns : Alone(c) /\ Suspected(c)

LEMMA SameFiles == ASSUME FileInv, UNCHANGED fileVars PROVE FileInv'
  BY DEF FileInv, FileWhole, Alone, Suspected, fileVars

LEMMA BinaryKeepsFiles ==
    ASSUME TypeOK, FileInv, NEW c \in Conns, Binary(c)
    PROVE  FileInv'
  <1>1. /\ UNCHANGED <<file, suspect>> /\ pending[c] \in Names
        /\ tmp' = [name |-> pending[c], whole |-> FALSE]
    BY TypeParts DEF Binary, ConnType
  <1>2. /\ writer'[c].name = pending[c] /\ writer'[c].at = "tmp" /\ ~writer'[c].done
        /\ ~writer'[c].shared => \A d \in Conns \ {c} : writer[d] = None
        /\ \A d \in Conns \ {c} :
              /\ writer[d] = None => writer'[d] = None
              /\ writer[d] # None => writer'[d] = [writer[d] EXCEPT !.shared = TRUE]
    BY <1>1, BinaryWriters
  <1>3. FileWhole'
    BY <1>1 DEF FileInv, FileWhole
  <1>4. Alone(c)' /\ Suspected(c)'
    <2>1. tmp'.name = pending[c]
      BY <1>1
    <2>2. ~writer'[c].shared => \A d \in Conns \ {c} : writer'[d] = None
      BY <1>2
    <2>3. writer'[c].at \notin Names
      BY <1>2, NoneAssumption
    <2> QED BY <1>2, <2>1, <2>2, <2>3 DEF Alone, Suspected
  <1>5. ASSUME NEW d \in Conns \ {c} PROVE Alone(d)' /\ Suspected(d)'
    <2>1. CASE writer[d] = None
      BY <1>2, <2>1 DEF Alone, Suspected
    <2>2. CASE writer[d] # None
      <3>1. writer'[d] = [writer[d] EXCEPT !.shared = TRUE] /\ writer[d] \in Writer
        BY <1>2, <2>2, WriterFields
      <3>2. writer'[d].shared /\ writer'[d].at = writer[d].at
        BY <3>1 DEF Writer
      <3> QED BY <1>1, <2>2, <3>2 DEF FileInv, Alone, Suspected
    <2> QED BY <2>1, <2>2
  <1> QED BY <1>3, <1>4, <1>5 DEF FileInv

LEMMA FinishKeepsFiles ==
    ASSUME TypeOK, FileInv, NEW c \in Conns, FinishWrite(c)
    PROVE  FileInv'
  <1>1. /\ UNCHANGED suspect /\ writer[c] # None
        /\ writer' = [writer EXCEPT ![c].done = TRUE]
        /\ writer \in [Conns -> Writer \cup {None}] /\ writer[c] \in Writer
    BY TypeParts, WriterFields DEF FinishWrite, WriterType
  <1>2. PICK content \in Written(c) :
            /\ tmp' = IF writer[c].at = "tmp" THEN content ELSE tmp
            /\ file' = [n \in Names |-> IF writer[c].at = n THEN content ELSE file[n]]
    BY DEF FinishWrite
  <1>3. content.name = writer[c].name /\ (~writer[c].shared => content.whole)
    BY <1>1, WrittenContent
  <1>4. /\ writer'[c] = [writer[c] EXCEPT !.done = TRUE]
        /\ writer'[c].name = writer[c].name /\ writer'[c].at = writer[c].at
        /\ writer'[c].shared = writer[c].shared
        /\ \A d \in Conns \ {c} : writer'[d] = writer[d]
    BY <1>1 DEF Writer
  <1>5. FileWhole'
    <2> SUFFICES ASSUME NEW n \in Names, n \notin suspect, file'[n] # None
                 PROVE  file'[n].name = n /\ file'[n].whole
      BY <1>1 DEF FileWhole
    <2>1. writer[c].at # n
      BY <1>1 DEF FileInv, Suspected
    <2>2. file'[n] = file[n]
      BY <1>2, <2>1
    <2> QED BY <2>2 DEF FileInv, FileWhole
  <1>6. Alone(c)' /\ Suspected(c)'
    <2>1. Suspected(c)'
      BY <1>1, <1>4 DEF FileInv, Suspected
    <2>2. ASSUME ~writer[c].shared
          PROVE  /\ \A d \in Conns \ {c} : writer'[d] = None
                 /\ writer'[c].at = "tmp" /\ tmp'.name = writer'[c].name /\ tmp'.whole
      <3>1. writer[c].at = "tmp" /\ \A d \in Conns \ {c} : writer[d] = None
        BY <1>1, <2>2 DEF FileInv, Alone
      <3> QED BY <1>2, <1>3, <1>4, <2>2, <3>1
    <2> QED BY <1>4, <2>1, <2>2 DEF Alone
  <1>7. ASSUME NEW d \in Conns \ {c} PROVE Alone(d)' /\ Suspected(d)'
    <2>1. Suspected(d)'
      BY <1>1, <1>4 DEF FileInv, Suspected
    <2>2. writer[d] # None => writer[d].shared
      <3>1. writer[d] # None /\ ~writer[d].shared => \A e \in Conns \ {d} : writer[e] = None
        BY DEF FileInv, Alone
      <3> QED BY <1>1, <3>1, WriterFields
    <2> QED BY <1>4, <2>1, <2>2 DEF Alone
  <1> QED BY <1>5, <1>6, <1>7 DEF FileInv

LEMMA RenameKeepsFiles ==
    ASSUME TypeOK, FileInv, NEW c \in Conns, Rename(c)
    PROVE  FileInv'
  <1> DEFINE n == writer[c].name
  <1>1. /\ writer[c] # None /\ writer[c].done /\ EndWriter(c, n)
        /\ file' = [file EXCEPT ![n] = tmp]
        /\ suspect' = IF writer[c].shared THEN suspect \cup {n} ELSE suspect \ {n}
        /\ file \in [Names -> Content \cup {None}] /\ n \in Names
    BY TypeParts, WriterFields DEF Rename, StoreType
  <1>2. /\ writer'[c] = None
        /\ \A d \in Conns : writer'[d] # None =>
             /\ d # c /\ writer[d] # None
             /\ writer'[d] = [writer[d] EXCEPT !.at = HandleAfterRename(@, n)]
    BY <1>1, EndWriterFacts
  <1> HIDE DEF n
  <1>3. FileWhole'
    <2> SUFFICES ASSUME NEW m \in Names, m \notin suspect', file'[m] # None
                 PROVE  file'[m].name = m /\ file'[m].whole
      BY DEF FileWhole
    <2>1. CASE m # n
      <3>1. m \notin suspect /\ file'[m] = file[m]
        BY <1>1, <2>1
      <3> QED BY <3>1 DEF FileInv, FileWhole
    <2>2. CASE m = n
      <3>1. ~writer[c].shared /\ file'[m] = tmp
        BY <1>1, <2>2
      <3>2. tmp.name = n /\ tmp.whole
        BY <1>1, <3>1 DEF FileInv, Alone, n
      <3> QED BY <2>2, <3>1, <3>2
    <2> QED BY <2>1, <2>2
  <1>4. ASSUME NEW d \in Conns, writer'[d] # None
        PROVE  writer'[d].shared /\ (writer'[d].at \in Names => writer'[d].at \in suspect')
    <2>1. /\ d # c /\ writer[d] # None
          /\ writer'[d] = [writer[d] EXCEPT !.at = HandleAfterRename(@, n)]
          /\ writer[d] \in Writer
      BY <1>2, <1>4, WriterFields
    <2>2. writer[d].shared /\ writer[c].shared
      BY <1>1, <2>1, WriterFields DEF FileInv, Alone
    <2>3. /\ writer'[d].shared = writer[d].shared
          /\ writer'[d].at = HandleAfterRename(writer[d].at, n)
      BY <2>1 DEF Writer
    <2>4. suspect' = suspect \cup {n}
      BY <1>1, <2>2
    <2>5. HandleAfterRename(writer[d].at, n) \in {n, None, writer[d].at}
      BY DEF HandleAfterRename
    <2>6. None \notin Names
      BY NoneAssumption
    <2> QED BY <2>1, <2>2, <2>3, <2>4, <2>5, <2>6 DEF FileInv, Suspected
  <1> QED BY <1>3, <1>4 DEF FileInv, Alone, Suspected

LEMMA FailKeepsFiles ==
    ASSUME TypeOK, FileInv, NEW c \in Conns, PutFileFails(c)
    PROVE  FileInv'
  <1>1. /\ UNCHANGED <<tmp, file, suspect>> /\ writer' = [writer EXCEPT ![c] = None]
        /\ writer \in [Conns -> Writer \cup {None}]
    BY TypeParts DEF PutFileFails, WriterType
  <1>2. writer'[c] = None /\ \A d \in Conns \ {c} : writer'[d] = writer[d]
    BY <1>1
  <1>3. FileWhole'
    BY <1>1 DEF FileInv, FileWhole
  <1>4. Alone(c)' /\ Suspected(c)'
    BY <1>2 DEF Alone, Suspected
  <1>5. ASSUME NEW d \in Conns \ {c} PROVE Alone(d)' /\ Suspected(d)'
    BY <1>1, <1>2 DEF FileInv, Alone, Suspected
  <1> QED BY <1>3, <1>4, <1>5 DEF FileInv

LEMMA NextKeepsFiles == TypeOK /\ FileInv /\ [Next]_vars => FileInv'
  <1> SUFFICES ASSUME TypeOK, FileInv, [Next]_vars PROVE FileInv'
    OBVIOUS
  <1>1. CASE ServerStarts \/ UNCHANGED vars
    BY <1>1, SameFiles DEF ServerStarts, vars
  <1>2. CASE ServerDies
    <2>1. UNCHANGED <<file, suspect>> /\ \A c \in Conns : writer'[c] = None
      BY <1>2 DEF ServerDies
    <2> QED BY <2>1 DEF FileInv, FileWhole, Alone, Suspected
  <1>3. ASSUME NEW p \in Profiles, HttpPut(p) \/ HttpPutDropped(p) PROVE FileInv'
    BY <1>3, SameFiles DEF HttpPut, HttpPutDropped
  <1>4. ASSUME NEW c \in Conns, ConnNext(c) PROVE FileInv'
    <2>1. CASE \/ Connect(c) \/ Subscribe(c) \/ Changed(c) \/ Lagged(c) \/ Leave(c)
               \/ (\E p \in Profiles : WsSet(c, p)) \/ WsGet(c)
               \/ (\E n \in Names \cup {None} : FileSet(c, n))
      BY <2>1, SameFiles DEF Connect, Subscribe, Changed, Lagged, Leave, WsSet, WsGet, FileSet
    <2> QED
      BY <1>4, <2>1, BinaryKeepsFiles, FinishKeepsFiles, RenameKeepsFiles, FailKeepsFiles
      DEF ConnNext
  <1> QED BY <1>1, <1>2, <1>3, <1>4 DEF Next

(* An attachment is the whole of one upload sent under its own name, whatever fails,
   is dropped or dies half-way, unless the put that renamed it met another. *)
THEOREM FileWholeAlways == Spec => []FileWhole
  <1>1. Init => FileInv
    BY DEF Init, FileInv, FileWhole, Alone, Suspected
  <1>2. Spec => [](TypeOK /\ FileInv)
    BY <1>1, InitType, NextType, NextKeepsFiles, PTL DEF Spec
  <1>3. FileInv => FileWhole
    BY DEF FileInv
  <1> QED BY <1>2, <1>3, PTL

=============================================================================

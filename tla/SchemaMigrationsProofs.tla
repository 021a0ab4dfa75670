----------------------- MODULE SchemaMigrationsProofs -----------------------
(***************************************************************************)
(* Proofs about SchemaMigrations: every revision stands for one schema,    *)
(* the head is what the ORM declares, and an upgrade keeps all data.  What *)
(* the calls of a run make of a schema is computed once, for each          *)
(* revision; the rest follows from what the calls still to be made will    *)
(* make of the schema inside the transaction.                              *)
(***************************************************************************)
EXTENDS SchemaMigrations, SequenceTheorems, TLAPS

-----------------------------------------------------------------------------
(* Calls one after the other.                                              *)

\* The calls of `op' that a revision can make.
Tables == {"events", "notifications"}
Types == {"uuid", "varchar_null", "varchar_32", "varchar_64", "varchar_512", "boolean",
          "timestamp", "timestamp_utc", "timestamptz", "timestamptz_now", "unique"}
Changes == [drops : SUBSET (Tables \X Names), adds : SUBSET (Tables \X Names \X Types)]

\* The call drops the column; no call from the n-th on does.
Dropped(column, call) == <<column[1], column[2]>> \in call.drops
Kept(calls, column, n) == \A i \in n .. Len(calls) : ~Dropped(column, calls[i])

\* What a schema consists of after some calls.
LEMMA AfterElements ==
    ASSUME NEW s, NEW calls
    PROVE  \A x : x \in After(s, calls) <=>
              \/ x \in s /\ Kept(calls, x, 1)
              \/ \E n \in DOMAIN calls : x \in calls[n].adds /\ Kept(calls, x, n + 1)
  BY DEF After, Kept, Dropped

\* The same for a single call.
LEMMA ApplyElements ==
    ASSUME NEW s, NEW call
    PROVE  \A x : x \in Apply(s, call) <=> (x \in s /\ ~Dropped(x, call)) \/ x \in call.adds
  BY DEF Apply, Dropped

\* No call, no change.
LEMMA AfterNothing ==
    ASSUME NEW s
    PROVE  After(s, <<>>) = s
  <1>1. Len(<<>>) = 0 /\ DOMAIN <<>> = {}
    OBVIOUS
  <1>2. \A x : Kept(<<>>, x, 1)
    BY <1>1 DEF Kept
  <1>3. \A x : x \in After(s, <<>>) <=> x \in s
    BY <1>1, <1>2, AfterElements, Zenon
  <1> QED
    BY <1>3

\* The first call, then the others.
LEMMA AfterFirst ==
    ASSUME NEW s, NEW calls \in Seq(Changes), calls # <<>>
    PROVE  After(s, calls) = After(Apply(s, Head(calls)), Tail(calls))
  <1> DEFINE rest == Tail(calls)
  <1>1. /\ Len(calls) \in Nat \ {0} /\ DOMAIN calls = 1 .. Len(calls)
        /\ Len(rest) = Len(calls) - 1 /\ DOMAIN rest = 1 .. Len(calls) - 1
        /\ \A i \in 1 .. Len(calls) - 1 : rest[i] = calls[i + 1]
        /\ Head(calls) = calls[1]
    OBVIOUS
  <1> HIDE DEF rest
  <1>2. ASSUME NEW x, NEW n \in Nat \ {0}
        PROVE  Kept(rest, x, n) <=> Kept(calls, x, n + 1)
    <2>1. ASSUME Kept(calls, x, n + 1), NEW i \in n .. Len(rest) PROVE ~Dropped(x, rest[i])
      BY <1>1, <2>1 DEF Kept
    <2>2. ASSUME Kept(rest, x, n), NEW i \in n + 1 .. Len(calls) PROVE ~Dropped(x, calls[i])
      <3>1. i - 1 \in n .. Len(rest) /\ rest[i - 1] = calls[i]
        BY <1>1
      <3> QED
        BY <2>2, <3>1 DEF Kept
    <2> QED
      BY <2>1, <2>2 DEF Kept
  <1>3. ASSUME NEW x PROVE Kept(calls, x, 1) <=> ~Dropped(x, calls[1]) /\ Kept(rest, x, 1)
    <2>1. Kept(calls, x, 1) <=> ~Dropped(x, calls[1]) /\ Kept(calls, x, 2)
      BY <1>1 DEF Kept
    <2> QED
      BY <1>2, <2>1
  <1>4. ASSUME NEW x
        PROVE  x \in After(s, calls) <=> x \in After(Apply(s, calls[1]), rest)
    <2> DEFINE added(n)  == x \in calls[n].adds /\ Kept(calls, x, n + 1)
               addedR(n) == x \in rest[n].adds /\ Kept(rest, x, n + 1)
    <2>1. ASSUME NEW n \in DOMAIN rest PROVE addedR(n) <=> added(n + 1)
      <3>1. n + 1 \in Nat \ {0} /\ rest[n] = calls[n + 1]
        BY <1>1
      <3> QED
        BY <1>2, <3>1
    <2>2. added(1) <=> x \in calls[1].adds /\ Kept(rest, x, 1)
      BY <1>2
    <2> HIDE DEF added, addedR
    <2>3. (\E n \in DOMAIN calls : added(n)) <=> added(1) \/ \E n \in DOMAIN rest : addedR(n)
      <3>1. \A n \in DOMAIN rest : n + 1 \in DOMAIN calls
        BY <1>1
      <3>2. \A n \in DOMAIN calls : n = 1 \/ \E m \in DOMAIN rest : n = m + 1
        <4> TAKE n \in DOMAIN calls
        <4>1. n # 1 => n - 1 \in DOMAIN rest /\ n = (n - 1) + 1
          BY <1>1
        <4> QED
          BY <4>1
      <3>3. 1 \in DOMAIN calls
        BY <1>1
      <3> QED
        BY <2>1, <3>1, <3>2, <3>3
    <2>4. x \in After(s, calls) <=> (x \in s /\ Kept(calls, x, 1)) \/ \E n \in DOMAIN calls : added(n)
      BY AfterElements DEF added
    <2>5. x \in After(Apply(s, calls[1]), rest)
             <=> \/ x \in Apply(s, calls[1]) /\ Kept(rest, x, 1)
                 \/ \E n \in DOMAIN rest : addedR(n)
      BY AfterElements DEF addedR
    <2>6. x \in Apply(s, calls[1]) <=> (x \in s /\ ~Dropped(x, calls[1])) \/ x \in calls[1].adds
      BY ApplyElements
    <2> QED
      BY <1>3, <2>2, <2>3, <2>4, <2>5, <2>6, Zenon
  <1> QED
    BY <1>1, <1>4 DEF rest

\* One run of calls, then another one.
LEMMA AfterConcat ==
    ASSUME NEW s, NEW a \in Seq(Changes), NEW b \in Seq(Changes)
    PROVE  After(s, a \o b) = After(After(s, a), b)
  <1> DEFINE ab == a \o b
  <1>1. /\ Len(a) \in Nat /\ Len(b) \in Nat /\ Len(ab) = Len(a) + Len(b)
        /\ DOMAIN a = 1 .. Len(a) /\ DOMAIN b = 1 .. Len(b) /\ DOMAIN ab = 1 .. Len(ab)
        /\ \A i \in 1 .. Len(a) : ab[i] = a[i]
        /\ \A i \in 1 .. Len(b) : ab[Len(a) + i] = b[i]
    BY ConcatProperties
  <1> HIDE DEF ab
  <1>2. ASSUME NEW x, NEW n \in Nat \ {0}
        PROVE  Kept(ab, x, Len(a) + n) <=> Kept(b, x, n)
    <2>1. ASSUME Kept(ab, x, Len(a) + n), NEW i \in n .. Len(b) PROVE ~Dropped(x, b[i])
      <3>1. Len(a) + i \in Len(a) + n .. Len(ab) /\ ab[Len(a) + i] = b[i]
        BY <1>1
      <3> QED
        BY <2>1, <3>1 DEF Kept
    <2>2. ASSUME Kept(b, x, n), NEW i \in Len(a) + n .. Len(ab) PROVE ~Dropped(x, ab[i])
      <3>1. i - Len(a) \in n .. Len(b) /\ ab[i] = b[i - Len(a)]
        BY <1>1
      <3> QED
        BY <2>2, <3>1 DEF Kept
    <2> QED
      BY <2>1, <2>2 DEF Kept
  <1>3. ASSUME NEW x, NEW n \in 1 .. Len(a) + 1
        PROVE  Kept(ab, x, n) <=> Kept(a, x, n) /\ Kept(b, x, 1)
    <2>1. Kept(ab, x, n) <=> (\A i \in n .. Len(a) : ~Dropped(x, ab[i])) /\ Kept(ab, x, Len(a) + 1)
      BY <1>1 DEF Kept
    <2>2. (\A i \in n .. Len(a) : ~Dropped(x, ab[i])) <=> Kept(a, x, n)
      BY <1>1 DEF Kept
    <2> QED
      BY <1>2, <2>1, <2>2
  <1>4. ASSUME NEW x PROVE x \in After(s, ab) <=> x \in After(After(s, a), b)
    <2> DEFINE inA(n)  == x \in a[n].adds /\ Kept(a, x, n + 1)
               inB(n)  == x \in b[n].adds /\ Kept(b, x, n + 1)
               inAB(n) == x \in ab[n].adds /\ Kept(ab, x, n + 1)
    <2>1. ASSUME NEW n \in DOMAIN a PROVE n \in DOMAIN ab /\ (inAB(n) <=> inA(n) /\ Kept(b, x, 1))
      <3>1. n + 1 \in 1 .. Len(a) + 1 /\ ab[n] = a[n] /\ n \in DOMAIN ab
        BY <1>1
      <3> QED
        BY <1>3, <3>1
    <2>2. ASSUME NEW n \in DOMAIN b PROVE Len(a) + n \in DOMAIN ab /\ (inAB(Len(a) + n) <=> inB(n))
      <3>1. /\ n + 1 \in Nat \ {0} /\ ab[Len(a) + n] = b[n] /\ Len(a) + n \in DOMAIN ab
            /\ (Len(a) + n) + 1 = Len(a) + (n + 1)
        BY <1>1
      <3> QED
        BY <1>2, <3>1
    <2>3. \A n \in DOMAIN ab : n \in DOMAIN a \/ \E m \in DOMAIN b : n = Len(a) + m
      <3> TAKE n \in DOMAIN ab
      <3>1. n \notin DOMAIN a => n - Len(a) \in DOMAIN b /\ n = Len(a) + (n - Len(a))
        BY <1>1
      <3> QED
        BY <3>1
    <2> HIDE DEF inA, inB, inAB
    <2>4. (\E n \in DOMAIN ab : inAB(n))
             <=> ((\E n \in DOMAIN a : inA(n)) /\ Kept(b, x, 1)) \/ \E n \in DOMAIN b : inB(n)
      BY <2>1, <2>2, <2>3
    <2>5. x \in After(s, ab) <=> (x \in s /\ Kept(ab, x, 1)) \/ \E n \in DOMAIN ab : inAB(n)
      BY AfterElements DEF inAB
    <2>6. x \in After(s, a) <=> (x \in s /\ Kept(a, x, 1)) \/ \E n \in DOMAIN a : inA(n)
      BY AfterElements DEF inA
    <2>7. x \in After(After(s, a), b)
             <=> (x \in After(s, a) /\ Kept(b, x, 1)) \/ \E n \in DOMAIN b : inB(n)
      BY AfterElements DEF inB
    <2>8. Kept(ab, x, 1) <=> Kept(a, x, 1) /\ Kept(b, x, 1)
      BY <1>1, <1>3
    <2> QED
      BY <2>4, <2>5, <2>6, <2>7, <2>8, Zenon
  <1> QED
    BY <1>4 DEF ab

\* A revision of one call ...
LEMMA AfterOne ==
    ASSUME NEW s, NEW a \in Changes
    PROVE  After(s, <<a>>) = Apply(s, a)
  <1>1. <<a>> \in Seq(Changes) /\ <<a>> # <<>> /\ Head(<<a>>) = a /\ Tail(<<a>>) = <<>>
    OBVIOUS
  <1> QED
    BY <1>1, AfterFirst, AfterNothing

\* ... of three ...
LEMMA AfterThree ==
    ASSUME NEW s, NEW a \in Changes, NEW b \in Changes, NEW c \in Changes
    PROVE  After(s, <<a, b, c>>) = Apply(Apply(Apply(s, a), b), c)
  <1>1. /\ <<a, b, c>> \in Seq(Changes) /\ <<a, b, c>> # <<>>
        /\ Head(<<a, b, c>>) = a /\ Tail(<<a, b, c>>) = <<b, c>>
    OBVIOUS
  <1>2. /\ <<b, c>> \in Seq(Changes) /\ <<b, c>> # <<>>
        /\ Head(<<b, c>>) = b /\ Tail(<<b, c>>) = <<c>>
    OBVIOUS
  <1>3. \A t : After(t, <<b, c>>) = After(Apply(t, b), <<c>>)
    BY <1>2, AfterFirst
  <1>4. After(s, <<a, b, c>>) = After(Apply(s, a), <<b, c>>)
    BY <1>1, AfterFirst
  <1> QED
    BY <1>3, <1>4, AfterOne

\* ... and of eight calls, spelled out.
LEMMA AfterEight ==
    ASSUME NEW s, NEW q \in Seq(Changes), Len(q) = 8
    PROVE  After(s, q) = Apply(Apply(Apply(Apply(Apply(Apply(Apply(Apply(s,
               q[1]), q[2]), q[3]), q[4]), q[5]), q[6]), q[7]), q[8])
  <1> DEFINE from(n) == SubSeq(q, n, 8)
  <1>1. ASSUME NEW t, NEW n \in 1 .. 8 PROVE After(t, from(n)) = After(Apply(t, q[n]), from(n + 1))
    <2>1. Head(from(n)) = q[n] /\ Tail(from(n)) = from(n + 1)
      BY HeadTailOfSubSeq
    <2>2. from(n) \in Seq(Changes) /\ Len(from(n)) = 9 - n
      <3>1. ASSUME NEW i \in n .. 8 PROVE q[i] \in Changes
        <4>1. i \in 1 .. Len(q)
          OBVIOUS
        <4> QED
          BY <4>1, ElementOfSeq
      <3> QED
        BY <3>1, SubSeqProperties
    <2>3. from(n) # <<>>
      <3>1. Len(from(n)) # 0
        BY <2>2
      <3> HIDE DEF from
      <3> QED
        BY <3>1, EmptySeq
    <2> QED
      BY <2>1, <2>2, <2>3, AfterFirst
  <1>2. from(1) = q /\ from(9) = <<>>
    BY SubSeqProperties
  <1> HIDE DEF from
  <1>3. \A t : After(t, from(9)) = t
    BY <1>2, AfterNothing
  <1>4. \A t : After(t, from(8)) = Apply(t, q[8])
    BY <1>1, <1>3
  <1>5. \A t : After(t, from(7)) = Apply(Apply(t, q[7]), q[8])
    BY <1>1, <1>4
  <1>6. \A t : After(t, from(6)) = Apply(Apply(Apply(t, q[6]), q[7]), q[8])
    BY <1>1, <1>5
  <1>7. \A t : After(t, from(5)) = Apply(Apply(Apply(Apply(t, q[5]), q[6]), q[7]), q[8])
    BY <1>1, <1>6
  <1>8. \A t : After(t, from(4)) = Apply(Apply(Apply(Apply(Apply(t, q[4]), q[5]), q[6]), q[7]), q[8])
    BY <1>1, <1>7
  <1>9. \A t : After(t, from(3))
                 = Apply(Apply(Apply(Apply(Apply(Apply(t, q[3]), q[4]), q[5]), q[6]), q[7]), q[8])
    BY <1>1, <1>8
  <1>10. \A t : After(t, from(2))
                  = Apply(Apply(Apply(Apply(Apply(Apply(Apply(t,
                        q[2]), q[3]), q[4]), q[5]), q[6]), q[7]), q[8])
    BY <1>1, <1>9
  <1>11. After(s, from(1)) = After(Apply(s, q[1]), from(2))
    BY <1>1
  <1> QED
    BY <1>2, <1>10, <1>11

-----------------------------------------------------------------------------
(* What the revisions make of the schema of the revision before.           *)

\* The columns of the tables, and the schema of each revision.
events_1 == {<<"events", "id", "uuid">>, <<"events", "type", "varchar_64">>,
             <<"events", "message", "varchar_null">>, <<"events", "created_at", "timestamp_utc">>}
events_2 == {<<"events", "id", "uuid">>, <<"events", "order_id", "varchar_64">>,
             <<"events", "user_id", "varchar_64">>, <<"events", "event_type", "varchar_32">>,
             <<"events", "created_at", "timestamp_utc">>,
             <<"events", "event_occurred_at", "timestamp">>,
             <<"events", "published_to_kafka", "boolean">>}
events_3 == {<<"events", "id", "uuid">>, <<"events", "order_id", "varchar_64">>,
             <<"events", "user_id", "varchar_64">>, <<"events", "event_type", "varchar_32">>,
             <<"events", "created_at", "timestamptz_now">>,
             <<"events", "event_occurred_at", "timestamptz">>,
             <<"events", "published_to_kafka", "boolean">>}
notifications_2 ==
    {<<"notifications", "id", "uuid">>, <<"notifications", "user_id", "varchar_64">>,
     <<"notifications", "order_id", "varchar_64">>, <<"notifications", "event_type", "varchar_32">>,
     <<"notifications", "message", "varchar_512">>, <<"notifications", "created_at", "timestamp_utc">>}
notifications_3 ==
    {<<"notifications", "id", "uuid">>, <<"notifications", "user_id", "varchar_64">>,
     <<"notifications", "order_id", "varchar_64">>, <<"notifications", "event_type", "varchar_32">>,
     <<"notifications", "message", "varchar_512">>, <<"notifications", "created_at", "timestamptz_now">>}
unique_4 == {<<"notifications", Unique, "unique">>}

SchemaOf(r) ==
    IF r = 0 THEN {}
    ELSE IF r = 1 THEN events_1
    ELSE IF r = 2 THEN events_2 \cup notifications_2
    ELSE IF r = 3 THEN events_3 \cup notifications_3
    ELSE events_3 \cup notifications_3 \cup unique_4

\* Every call of the revisions is one.
LEMMA CallTypes ==
    ASSUME NEW t \in Tables, NEW c \in Names, NEW type \in Types
    PROVE  /\ add_column(t, c, type) \in Changes
           /\ drop_column(t, c) \in Changes
           /\ alter_column(t, c, type) \in Changes
  BY DEF add_column, drop_column, alter_column, Change, Changes

\* The tables as the revisions create them.
LEMMA CreatesEvents ==
    /\ create_table("events", [id |-> "uuid", type |-> "varchar_64",
                               message |-> "varchar_null", created_at |-> "timestamp_utc"])
         = Change({}, events_1)
    /\ Change({}, events_1) \in Changes
  <1>1. Change({}, events_1) \in Changes
    BY DEF Change, Changes, events_1, Tables, Names, Types
  <1>2. create_table("events", [id |-> "uuid", type |-> "varchar_64",
                               message |-> "varchar_null", created_at |-> "timestamp_utc"])
         = Change({}, events_1)
    BY DEF create_table, Change, events_1
  <1> QED
    BY <1>1, <1>2

\* The same for the notifications.
LEMMA CreatesNotifications ==
    /\ create_table("notifications", [id |-> "uuid", user_id |-> "varchar_64",
                               order_id |-> "varchar_64", event_type |-> "varchar_32",
                               message |-> "varchar_512", created_at |-> "timestamp_utc"])
         = Change({}, notifications_2)
    /\ Change({}, notifications_2) \in Changes
  <1>1. Change({}, notifications_2) \in Changes
    BY DEF Change, Changes, notifications_2, Tables, Names, Types
  <1>2. create_table("notifications", [id |-> "uuid", user_id |-> "varchar_64",
                               order_id |-> "varchar_64", event_type |-> "varchar_32",
                               message |-> "varchar_512", created_at |-> "timestamp_utc"])
         = Change({}, notifications_2)
    BY DEF create_table, Change, notifications_2
  <1> QED
    BY <1>1, <1>2

\* Dropping a table is a call too.
LEMMA DropTypes ==
    ASSUME NEW t \in Tables
    PROVE  drop_table(t) \in Changes
  BY DEF drop_table, Change, Changes

\* init, up.
LEMMA InitUp ==
    init_upgrade \in Seq(Changes) /\ After({}, init_upgrade) = SchemaOf(1)
  <1>1. PICK a \in Changes : a = Change({}, events_1) /\ init_upgrade = <<a>>
    BY CreatesEvents DEF init_upgrade
  <1>2. Apply({}, a) = events_1
    BY <1>1 DEF Apply, Change
  <1> QED
    BY <1>1, <1>2, AfterOne DEF SchemaOf

\* Down again: no table is left.
LEMMA InitDown ==
    init_downgrade \in Seq(Changes) /\ After(SchemaOf(1), init_downgrade) = SchemaOf(0)
  <1>1. drop_table("events") \in Changes
    BY DropTypes DEF Tables
  <1>2. Apply(events_1, drop_table("events")) = {}
    BY DEF Apply, drop_table, Change, events_1, Names
  <1> QED
    BY <1>1, <1>2, AfterOne DEF SchemaOf, init_downgrade

\* The schemas by name.
LEMMA Schemas ==
    /\ SchemaOf(0) = {} /\ SchemaOf(1) = events_1
    /\ SchemaOf(2) = events_2 \cup notifications_2
    /\ SchemaOf(3) = events_3 \cup notifications_3
    /\ SchemaOf(4) = events_3 \cup notifications_3 \cup unique_4
  BY DEF SchemaOf

\* events_and_notifications, up.
LEMMA TablesUp ==
    tables_upgrade \in Seq(Changes) /\ After(SchemaOf(1), tables_upgrade) = SchemaOf(2)
  <1> DEFINE a == Change({}, notifications_2)
             b == add_column("events", "order_id", "varchar_64")
             c == add_column("events", "user_id", "varchar_64")
             d == add_column("events", "event_type", "varchar_32")
             e == add_column("events", "event_occurred_at", "timestamp")
             f == add_column("events", "published_to_kafka", "boolean")
             g == drop_column("events", "type")
             h == drop_column("events", "message")
  <1>1. tables_upgrade = <<a, b, c, d, e, f, g, h>>
    BY CreatesNotifications, Zenon DEF tables_upgrade
  <1>2. /\ a \in Changes /\ b \in Changes /\ c \in Changes /\ d \in Changes
        /\ e \in Changes /\ f \in Changes /\ g \in Changes /\ h \in Changes
    BY CallTypes, CreatesNotifications DEF Tables, Names, Types
  <1>3. Apply(Apply(Apply(Apply(Apply(Apply(Apply(Apply(events_1, a), b), c), d), e), f), g), h)
          = events_2 \cup notifications_2
    BY DEF Apply, events_1, events_2, notifications_2, Change, add_column, drop_column
  <1> HIDE DEF a, b, c, d, e, f, g, h
  <1>4. tables_upgrade \in Seq(Changes)
    BY <1>1, <1>2
  <1>5. After(events_1, tables_upgrade)
          = Apply(Apply(Apply(Apply(Apply(Apply(Apply(Apply(events_1, a), b), c), d), e), f), g), h)
    <2>1. tables_upgrade[1] = a /\ tables_upgrade[2] = b /\ tables_upgrade[3] = c /\ tables_upgrade[4] = d
      BY <1>1
    <2>2. tables_upgrade[5] = e /\ tables_upgrade[6] = f /\ tables_upgrade[7] = g /\ tables_upgrade[8] = h
      BY <1>1
    <2>3. Len(tables_upgrade) = 8
      BY <1>1
    <2> QED
      BY <1>4, <2>1, <2>2, <2>3, AfterEight
  <1> QED
    BY <1>1, <1>3, <1>4, <1>5, Schemas

\* Down: the columns that init created come back.
LEMMA TablesDown ==
    tables_downgrade \in Seq(Changes) /\ After(SchemaOf(2), tables_downgrade) = SchemaOf(1)
  <1> DEFINE a == add_column("events", "message", "varchar_null")
             b == add_column("events", "type", "varchar_64")
             c == drop_column("events", "published_to_kafka")
             d == drop_column("events", "event_occurred_at")
             e == drop_column("events", "event_type")
             f == drop_column("events", "user_id")
             g == drop_column("events", "order_id")
             h == drop_table("notifications")
  <1>1. tables_downgrade = <<a, b, c, d, e, f, g, h>>
    BY DEF tables_downgrade
  <1>2. /\ a \in Changes /\ b \in Changes /\ c \in Changes /\ d \in Changes
        /\ e \in Changes /\ f \in Changes /\ g \in Changes /\ h \in Changes
    BY CallTypes, DropTypes DEF Tables, Names, Types
  <1>3. Apply(Apply(Apply(Apply(Apply(Apply(Apply(Apply(events_2 \cup notifications_2,
            a), b), c), d), e), f), g), h) = events_1
    BY DEF Apply, events_1, events_2, notifications_2, Change, add_column, drop_column,
           drop_table, Names
  <1> HIDE DEF a, b, c, d, e, f, g, h
  <1>4. tables_downgrade \in Seq(Changes)
    BY <1>1, <1>2
  <1>5. After(events_2 \cup notifications_2, tables_downgrade)
          = Apply(Apply(Apply(Apply(Apply(Apply(Apply(Apply(events_2 \cup notifications_2,
              a), b), c), d), e), f), g), h)
    <2>1. tables_downgrade[1] = a /\ tables_downgrade[2] = b /\ tables_downgrade[3] = c /\ tables_downgrade[4] = d
      BY <1>1
    <2>2. tables_downgrade[5] = e /\ tables_downgrade[6] = f /\ tables_downgrade[7] = g /\ tables_downgrade[8] = h
      BY <1>1
    <2>3. Len(tables_downgrade) = 8
      BY <1>1
    <2> QED
      BY <1>4, <2>1, <2>2, <2>3, AfterEight
  <1> QED
    BY <1>1, <1>3, <1>4, <1>5, Schemas

\* dates, up.
LEMMA DatesUp ==
    dates_upgrade \in Seq(Changes) /\ After(SchemaOf(2), dates_upgrade) = SchemaOf(3)
  <1>1. /\ alter_column("events", "created_at", "timestamptz_now") \in Changes
        /\ alter_column("events", "event_occurred_at", "timestamptz") \in Changes
        /\ alter_column("notifications", "created_at", "timestamptz_now") \in Changes
    BY CallTypes DEF Tables, Names, Types
  <1>2. Apply(Apply(Apply(events_2 \cup notifications_2,
            alter_column("events", "created_at", "timestamptz_now")),
            alter_column("events", "event_occurred_at", "timestamptz")),
            alter_column("notifications", "created_at", "timestamptz_now"))
          = events_3 \cup notifications_3
    BY DEF Apply, events_2, events_3, notifications_2, notifications_3, Change, alter_column
  <1>3. dates_upgrade \in Seq(Changes)
    BY <1>1 DEF dates_upgrade
  <1>4. After(events_2 \cup notifications_2, dates_upgrade) = events_3 \cup notifications_3
    BY <1>1, <1>2, AfterThree DEF dates_upgrade
  <1> QED
    BY <1>3, <1>4, Schemas

\* Down: the dates lose their time zone again.
LEMMA DatesDown ==
    dates_downgrade \in Seq(Changes) /\ After(SchemaOf(3), dates_downgrade) = SchemaOf(2)
  <1>1. /\ alter_column("notifications", "created_at", "timestamp_utc") \in Changes
        /\ alter_column("events", "event_occurred_at", "timestamp") \in Changes
        /\ alter_column("events", "created_at", "timestamp_utc") \in Changes
    BY CallTypes DEF Tables, Names, Types
  <1>2. Apply(Apply(Apply(events_3 \cup notifications_3,
            alter_column("notifications", "created_at", "timestamp_utc")),
            alter_column("events", "event_occurred_at", "timestamp")),
            alter_column("events", "created_at", "timestamp_utc"))
          = events_2 \cup notifications_2
    BY DEF Apply, events_2, events_3, notifications_2, notifications_3, Change, alter_column
  <1>3. dates_downgrade \in Seq(Changes)
    BY <1>1 DEF dates_downgrade
  <1>4. After(events_3 \cup notifications_3, dates_downgrade) = events_2 \cup notifications_2
    BY <1>1, <1>2, AfterThree DEF dates_downgrade
  <1> QED
    BY <1>3, <1>4, Schemas

\* unique constraint, up.
LEMMA UniqueUp ==
    unique_upgrade \in Seq(Changes) /\ After(SchemaOf(3), unique_upgrade) = SchemaOf(4)
  <1>1. add_column("notifications", Unique, "unique") \in Changes
    BY CallTypes DEF Tables, Names, Types
  <1>2. Apply(events_3 \cup notifications_3, add_column("notifications", Unique, "unique"))
          = events_3 \cup notifications_3 \cup unique_4
    BY DEF Apply, add_column, Change, unique_4
  <1>3. unique_upgrade \in Seq(Changes)
    BY <1>1 DEF unique_upgrade
  <1>4. After(events_3 \cup notifications_3, unique_upgrade)
          = events_3 \cup notifications_3 \cup unique_4
    BY <1>1, <1>2, AfterOne DEF unique_upgrade
  <1> QED
    BY <1>3, <1>4, Schemas

\* Down: the constraint goes.
LEMMA UniqueDown ==
    unique_downgrade \in Seq(Changes) /\ After(SchemaOf(4), unique_downgrade) = SchemaOf(3)
  <1>1. drop_column("notifications", Unique) \in Changes
    BY CallTypes DEF Tables, Names, Types
  <1>2. Apply(events_3 \cup notifications_3 \cup unique_4, drop_column("notifications", Unique))
          = events_3 \cup notifications_3
    BY DEF Apply, drop_column, Change, Unique, events_3, notifications_3, unique_4
  <1> QED
    BY <1>1, <1>2, AfterOne, Schemas DEF unique_downgrade

\* Each revision leads from one schema to the next.
LEMMA Upgraded ==
    /\ head = 4
    /\ \A n \in 1 .. 4 : /\ Upgrades[n] \in Seq(Changes)
                         /\ After(SchemaOf(n - 1), Upgrades[n]) = SchemaOf(n)
  <1>1. /\ Upgrades[1] = init_upgrade /\ Upgrades[2] = tables_upgrade
        /\ Upgrades[3] = dates_upgrade /\ Upgrades[4] = unique_upgrade
    BY DEF Upgrades
  <1>2. head = 4
    BY DEF head, Upgrades
  <1>3. SchemaOf(0) = {}
    BY Schemas
  <1>4. ASSUME NEW n \in 1 .. 4
        PROVE  Upgrades[n] \in Seq(Changes) /\ After(SchemaOf(n - 1), Upgrades[n]) = SchemaOf(n)
    <2>1. CASE n = 1
      <3>1. SchemaOf(n - 1) = {}
        BY <1>3, <2>1
      <3> QED
        BY <1>1, <2>1, <3>1, InitUp
    <2>2. CASE n = 2
      BY <1>1, <2>2, TablesUp
    <2>3. CASE n = 3
      BY <1>1, <2>3, DatesUp
    <2>4. CASE n = 4
      BY <1>1, <2>4, UniqueUp
    <2> QED
      BY <2>1, <2>2, <2>3, <2>4
  <1> QED
    BY <1>2, <1>4

\* The way back, one revision at a time.
LEMMA Downgraded ==
    \A n \in 1 .. 4 : /\ Downgrades[n] \in Seq(Changes)
                      /\ After(SchemaOf(n), Downgrades[n]) = SchemaOf(n - 1)
  <1>1. /\ Downgrades[1] = init_downgrade /\ Downgrades[2] = tables_downgrade
        /\ Downgrades[3] = dates_downgrade /\ Downgrades[4] = unique_downgrade
    BY DEF Downgrades
  <1> TAKE n \in 1 .. 4
  <1>2. CASE n = 1
    BY <1>1, <1>2, InitDown
  <1>3. CASE n = 2
    BY <1>1, <1>3, TablesDown
  <1>4. CASE n = 3
    BY <1>1, <1>4, DatesDown
  <1>5. CASE n = 4
    BY <1>1, <1>5, UniqueDown
  <1> QED
    BY <1>2, <1>3, <1>4, <1>5

\* The calls from one revision up to another lead from its schema to the other's.
LEMMA PathLeads ==
    ASSUME NEW from \in 0 .. 4, NEW to \in 0 .. 4, from <= to
    PROVE  Path(from, to) \in Seq(Changes) /\ After(SchemaOf(from), Path(from, to)) = SchemaOf(to)
  <1> DEFINE calls(n) == IF from < n /\ n <= to THEN Upgrades[n] ELSE <<>>
             reached(n) == SchemaOf(IF n < from THEN from ELSE IF n > to THEN to ELSE n)
  <1>1. ASSUME NEW n \in 1 .. 4
        PROVE  calls(n) \in Seq(Changes) /\ After(reached(n - 1), calls(n)) = reached(n)
    <2>1. CASE from < n /\ n <= to
      <3>1. reached(n - 1) = SchemaOf(n - 1) /\ reached(n) = SchemaOf(n) /\ calls(n) = Upgrades[n]
        BY <2>1
      <3> QED
        BY <3>1, Upgraded
    <2>2. CASE ~(from < n /\ n <= to)
      <3>1. reached(n - 1) = reached(n)
        BY <2>2
      <3>2. calls(n) = <<>> /\ calls(n) \in Seq(Changes)
        BY <2>2, EmptySeq
      <3>3. After(reached(n - 1), <<>>) = reached(n - 1)
        BY AfterNothing
      <3> HIDE DEF calls, reached
      <3> QED
        BY <3>1, <3>2, <3>3
    <2> QED
      BY <2>1, <2>2
  <1>2. reached(0) = SchemaOf(from) /\ reached(4) = SchemaOf(to)
    OBVIOUS
  <1>3. Path(from, to) = calls(1) \o calls(2) \o calls(3) \o calls(4)
    BY DEF Path
  <1> HIDE DEF calls, reached
  <1>4. /\ calls(1) \in Seq(Changes) /\ After(reached(0), calls(1)) = reached(1)
        /\ calls(2) \in Seq(Changes) /\ After(reached(1), calls(2)) = reached(2)
        /\ calls(3) \in Seq(Changes) /\ After(reached(2), calls(3)) = reached(3)
        /\ calls(4) \in Seq(Changes) /\ After(reached(3), calls(4)) = reached(4)
    <2>1. 1 - 1 = 0 /\ 2 - 1 = 1 /\ 3 - 1 = 2 /\ 4 - 1 = 3
      OBVIOUS
    <2> QED
      BY <1>1, <2>1
  <1> DEFINE upTo2 == calls(1) \o calls(2)
             upTo3 == upTo2 \o calls(3)
             upTo4 == upTo3 \o calls(4)
  <1>5. upTo2 \in Seq(Changes) /\ After(reached(0), upTo2) = reached(2)
    <2>1. upTo2 \in Seq(Changes)
      BY <1>4, ConcatProperties
    <2>2. After(reached(0), upTo2) = After(After(reached(0), calls(1)), calls(2))
      BY <1>4, AfterConcat
    <2> QED
      BY <1>4, <2>1, <2>2
  <1>6. upTo3 \in Seq(Changes) /\ After(reached(0), upTo3) = reached(3)
    <2> HIDE DEF upTo2
    <2>1. upTo3 \in Seq(Changes)
      BY <1>4, <1>5, ConcatProperties
    <2>2. After(reached(0), upTo3) = After(After(reached(0), upTo2), calls(3))
      BY <1>4, <1>5, AfterConcat
    <2> QED
      BY <1>4, <1>5, <2>1, <2>2
  <1>7. upTo4 \in Seq(Changes) /\ After(reached(0), upTo4) = reached(4)
    <2> HIDE DEF upTo3
    <2>1. upTo4 \in Seq(Changes)
      BY <1>4, <1>6, ConcatProperties
    <2>2. After(reached(0), upTo4) = After(After(reached(0), upTo3), calls(4))
      BY <1>4, <1>6, AfterConcat
    <2> QED
      BY <1>4, <1>6, <2>1, <2>2
  <1> QED
    BY <1>2, <1>3, <1>7

-----------------------------------------------------------------------------
(* The runs.                                                               *)

\* The calls a run has still to make lead to its target, from whatever schema it
\* has reached; outside a run there is nothing to do.
IInv ==
    /\ revision \in 0 .. 4 /\ target \in 0 .. 4
    /\ target <= revision \/ target = 4
    /\ todo \in Seq(Changes)
    /\ schema = SchemaOf(revision)
    /\ After(altered, todo) = SchemaOf(target)
    /\ events \in Nat

\* A database without tables is at revision 0.
LEMMA IInvInit == Init => IInv
  <1> SUFFICES ASSUME Init PROVE IInv
    OBVIOUS
  <1>1. todo = <<>> /\ todo \in Seq(Changes) /\ schema = {} /\ altered = {}
    BY EmptySeq DEF Init
  <1>2. SchemaOf(0) = {} /\ After({}, <<>>) = {}
    BY Schemas, AfterNothing
  <1>3. schema = SchemaOf(revision) /\ After(altered, todo) = SchemaOf(target)
    BY <1>1, <1>2, Zenon DEF Init
  <1>4. /\ revision \in 0 .. 4 /\ target \in 0 .. 4 /\ events \in Nat
        /\ target <= revision \/ target = 4
    BY DEF Init
  <1> QED
    BY <1>1, <1>3, <1>4 DEF IInv

\* A call of the run takes itself off those still to make, so what they lead to
\* stays; a failure takes all of it back.
LEMMA IInvStep == IInv /\ [Next]_vars => IInv'
  <1> SUFFICES ASSUME IInv, [Next]_vars PROVE IInv'
    OBVIOUS
  <1> USE Upgraded
  <1>0. After(altered, <<>>) = altered /\ After(schema, <<>>) = schema /\ <<>> \in Seq(Changes)
    BY AfterNothing, EmptySeq
  <1>1. CASE InsertEvent
    BY <1>1 DEF InsertEvent, IInv, runVars
  <1>2. ASSUME NEW k \in Keys, InsertNotification(k) PROVE IInv'
    BY <1>2 DEF InsertNotification, IInv, runVars
  <1>3. CASE Upgrade
    <2>0. revision \in 0 .. 4 /\ 4 \in 0 .. 4 /\ revision <= 4
      BY DEF IInv
    <2>1. /\ todo' \in Seq(Changes) /\ After(schema, todo') = SchemaOf(4)
      BY <1>3, <2>0, PathLeads DEF Upgrade, IInv
    <2>2. /\ target' = 4 /\ altered' = schema /\ schema' = schema /\ revision' = revision
          /\ events' = events
      BY <1>3 DEF Upgrade, rowVars
    <2> QED
      BY <2>1, <2>2 DEF IInv
  <1>4. CASE Downgrade
    <2>1. revision \in 1 .. 4
      BY <1>4 DEF Downgrade, IInv
    <2>2. /\ todo' \in Seq(Changes) /\ After(schema, todo') = SchemaOf(revision - 1)
      BY <1>4, <2>1, Downgraded DEF Downgrade, IInv
    <2>3. /\ target' = revision - 1 /\ altered' = schema /\ schema' = schema
          /\ revision' = revision /\ events' = events
      BY <1>4 DEF Downgrade, rowVars
    <2> QED
      BY <2>1, <2>2, <2>3 DEF IInv
  <1>5. CASE Execute
    <2>1. todo' \in Seq(Changes)
      BY <1>5 DEF Execute, IInv
    <2>2. After(altered', todo') = After(altered, todo)
      BY <1>5, AfterFirst DEF Execute, IInv
    <2>3. UNCHANGED <<target, schema, revision, events>>
      BY <1>5 DEF Execute, rowVars
    <2> QED
      BY <2>1, <2>2, <2>3 DEF IInv
  <1>6. CASE ExecuteFail \/ Abort
    <2>1. /\ todo' = <<>> /\ target' = revision /\ altered' = schema /\ schema' = schema
          /\ revision' = revision /\ events' = events
      BY <1>6 DEF ExecuteFail, Abort, Rollback, rowVars
    <2> QED
      BY <1>0, <2>1 DEF IInv
  <1>7. CASE Commit
    <2>1. /\ todo = <<>> /\ todo' = <<>> /\ target' = target /\ revision' = target
          /\ altered' = altered /\ schema' = altered /\ events' \in {events, 0}
      BY <1>7 DEF Commit, runVars
    <2>2. altered = SchemaOf(target)
      BY <1>0, <2>1 DEF IInv
    <2> QED
      BY <1>0, <2>1, <2>2 DEF IInv
  <1>8. CASE UNCHANGED vars
    BY <1>8 DEF vars, IInv, rowVars, runVars
  <1> QED
    BY <1>1, <1>2, <1>3, <1>4, <1>5, <1>6, <1>7, <1>8 DEF Next

\* The invariant holds in every state.
THEOREM Inductive == Spec => []IInv
  <1> QED
    BY IInvInit, IInvStep, PTL DEF Spec

\* A revision stands for the schema that a fresh database gets, whatever upgrades,
\* downgrades, refused calls and killed runs led to it, and however many rows the
\* services wrote meanwhile.
THEOREM RevisionIsSchema == Spec => []SchemaIsOfRevision
  <1>1. IInv => SchemaIsOfRevision
    <2> SUFFICES ASSUME IInv PROVE schema = After({}, Path(0, revision))
      BY DEF SchemaIsOfRevision
    <2>1. revision \in 0 .. 4 /\ 0 <= revision /\ schema = SchemaOf(revision)
      BY DEF IInv
    <2>2. After(SchemaOf(0), Path(0, revision)) = SchemaOf(revision)
      <3>1. 0 \in 0 .. 4
        OBVIOUS
      <3> QED
        BY <2>1, <3>1, PathLeads
    <2> QED
      BY <2>1, <2>2, Schemas
  <1> QED
    BY <1>1, Inductive, PTL

\* A database at the head has the tables that the ORM declares.
THEOREM HeadIsWhatServicesExpect == Spec => []HeadIsDeclared
  <1>1. create_table("events", EventTable).adds = events_3
    BY DEF create_table, Change, EventTable, uuid_pk, created_at, events_3
  <1>2. create_table("notifications", NotificationTable).adds = notifications_3
    BY DEF create_table, Change, NotificationTable, uuid_pk, created_at, notifications_3
  <1>3. Apply(events_3 \cup notifications_3, add_column("notifications", Unique, "unique"))
          = events_3 \cup notifications_3 \cup unique_4
    BY DEF Apply, add_column, Change, unique_4
  <1>4. IInv => HeadIsDeclared
    BY <1>1, <1>2, <1>3, Schemas, Upgraded DEF IInv, HeadIsDeclared
  <1> QED
    BY <1>4, Inductive, PTL

-----------------------------------------------------------------------------
(* The data that an upgrade finds.                                         *)

\* A column that the first upgrade of a filled database adds to `events'.
NewColumn == <<"events", "order_id", "varchar_64">>
Adds(calls) == \E i \in DOMAIN calls : NewColumn \in calls[i].adds
Spares(calls) == \A i \in DOMAIN calls : ~Dropped(NewColumn, calls[i])

\* A run that will drop columns of `events' gets past the call that adds NewColumn
\* only while the table has no rows, and has it locked from then on.
Guarded ==
    revision = 1 /\ target = 4 =>
        /\ Spares(todo)
        /\ Adds(todo) \/ (events = 0 /\ NewColumn \in altered)

\* What two runs of calls add and spare.
LEMMA AddsConcat ==
    ASSUME NEW a \in Seq(Changes), NEW b \in Seq(Changes)
    PROVE  /\ a \o b \in Seq(Changes)
           /\ Adds(a) \/ Adds(b) => Adds(a \o b)
           /\ Spares(a) /\ Spares(b) => Spares(a \o b)
  <1> DEFINE ab == a \o b
  <1>1. /\ ab \in Seq(Changes)
        /\ Len(a) \in Nat /\ Len(b) \in Nat /\ Len(ab) = Len(a) + Len(b)
        /\ DOMAIN a = 1 .. Len(a) /\ DOMAIN b = 1 .. Len(b) /\ DOMAIN ab = 1 .. Len(ab)
        /\ \A i \in 1 .. Len(a) : ab[i] = a[i]
        /\ \A i \in 1 .. Len(b) : ab[Len(a) + i] = b[i]
    BY ConcatProperties
  <1> HIDE DEF ab
  <1>2. \A i \in DOMAIN a : i \in DOMAIN ab /\ ab[i] = a[i]
    BY <1>1
  <1>3. \A i \in DOMAIN b : Len(a) + i \in DOMAIN ab /\ ab[Len(a) + i] = b[i]
    BY <1>1
  <1>4. \A i \in DOMAIN ab : i \in DOMAIN a \/ \E j \in DOMAIN b : i = Len(a) + j
    <2> TAKE i \in DOMAIN ab
    <2>1. i \notin DOMAIN a => i - Len(a) \in DOMAIN b /\ i = Len(a) + (i - Len(a))
      BY <1>1
    <2> QED
      BY <2>1
  <1>5. Adds(a) \/ Adds(b) => Adds(ab)
    BY <1>2, <1>3 DEF Adds
  <1>6. Spares(a) /\ Spares(b) => Spares(ab)
    BY <1>2, <1>3, <1>4 DEF Spares
  <1> QED
    BY <1>1, <1>5, <1>6 DEF ab

\* The first upgrade of a database at revision 1 adds NewColumn, and nothing drops it.
LEMMA UpgradeAdds == Spares(Path(1, 4)) /\ Adds(Path(1, 4))
  <1>1. Path(1, 4) = <<>> \o tables_upgrade \o dates_upgrade \o unique_upgrade
    BY DEF Path, Upgrades
  <1>2. Spares(<<>>)
    BY DEF Spares
  <1>3. Spares(tables_upgrade) /\ Adds(tables_upgrade)
    <2>1. tables_upgrade[2] = add_column("events", "order_id", "varchar_64") /\ 2 \in DOMAIN tables_upgrade
      BY DEF tables_upgrade
    <2>2. Adds(tables_upgrade)
      BY <2>1 DEF Adds, add_column, Change, NewColumn
    <2>3. Spares(tables_upgrade)
      BY DEF Spares, Dropped, tables_upgrade, create_table, add_column, drop_column, Change, NewColumn
    <2> QED
      BY <2>2, <2>3
  <1>4. Spares(dates_upgrade)
    BY DEF Spares, Dropped, dates_upgrade, alter_column, Change, NewColumn
  <1>5. Spares(unique_upgrade)
    BY DEF Spares, Dropped, unique_upgrade, add_column, Change, NewColumn
  <1> DEFINE upTo2 == <<>> \o tables_upgrade
             upTo3 == upTo2 \o dates_upgrade
  <1>6. upTo2 \in Seq(Changes) /\ Adds(upTo2) /\ Spares(upTo2)
    BY <1>2, <1>3, AddsConcat, TablesUp, EmptySeq
  <1>7. upTo3 \in Seq(Changes) /\ Adds(upTo3) /\ Spares(upTo3)
    <2> HIDE DEF upTo2
    <2> QED
      BY <1>4, <1>6, AddsConcat, DatesUp
  <1>8. Adds(upTo3 \o unique_upgrade) /\ Spares(upTo3 \o unique_upgrade)
    <2> HIDE DEF upTo3
    <2> QED
      BY <1>5, <1>7, AddsConcat, UniqueUp
  <1> QED
    BY <1>1, <1>8

\* Postgres refuses NewColumn to a table with rows, and no row gets in after it.
LEMMA GuardedStep == IInv /\ Guarded /\ [Next]_vars => Guarded'
  <1> SUFFICES ASSUME IInv, Guarded, [Next]_vars, revision' = 1, target' = 4
               PROVE  Spares(todo') /\ (Adds(todo') \/ (events' = 0 /\ NewColumn \in altered'))
    BY DEF Guarded
  <1>1. CASE InsertEvent
    <2>1. /\ revision = 1 /\ target = 4 /\ todo' = todo /\ altered' = altered
          /\ Writable("events")
      BY <1>1 DEF InsertEvent, runVars
    <2>2. schema = events_1
      BY <2>1, Schemas DEF IInv
    <2>3. NewColumn \notin altered
      <3>1. NewColumn[1] = "events" /\ NewColumn \notin schema
        BY <2>2 DEF NewColumn, events_1
      <3> QED
        BY <2>1, <3>1 DEF Writable
    <2> QED
      BY <2>1, <2>3 DEF Guarded
  <1>2. ASSUME NEW k \in Keys, InsertNotification(k)
        PROVE  Spares(todo') /\ (Adds(todo') \/ (events' = 0 /\ NewColumn \in altered'))
    BY <1>2 DEF InsertNotification, Guarded, runVars
  <1>3. CASE Upgrade
    <2>1. todo' = Path(1, 4)
      BY <1>3, Upgraded DEF Upgrade
    <2> QED
      BY <2>1, UpgradeAdds
  <1>4. CASE Downgrade
    BY <1>4 DEF Downgrade
  <1>5. CASE Execute
    <2> DEFINE call == Head(todo)
    <2>1. /\ revision = 1 /\ target = 4 /\ events' = events /\ todo # <<>>
          /\ todo' = Tail(todo) /\ altered' = Apply(altered, call) /\ ~Refused(call)
      BY <1>5 DEF Execute, rowVars
    <2>2. /\ DOMAIN todo = 1 .. Len(todo) /\ Len(todo) \in Nat \ {0} /\ call = todo[1]
          /\ DOMAIN todo' = 1 .. Len(todo) - 1 /\ \A i \in 1 .. Len(todo) - 1 : todo'[i] = todo[i + 1]
      BY <2>1 DEF IInv
    <2>3. Spares(todo)
      BY <2>1 DEF Guarded
    <2>4. ~Dropped(NewColumn, call) /\ Spares(todo')
      <3>1. \A i \in 1 .. Len(todo) - 1 : i + 1 \in DOMAIN todo
        BY <2>2
      <3>2. 1 \in DOMAIN todo
        BY <2>2
      <3> QED
        BY <2>2, <2>3, <3>1, <3>2 DEF Spares
    <2> HIDE DEF call
    <2>5. CASE NewColumn \in call.adds
      <3>1. NewColumn \in altered'
        BY <2>1, <2>5, ApplyElements
      <3>2. ~HasRows("events")
        <4>1. /\ NewColumn[1] = "events" /\ NewColumn[3] # "unique" /\ NewColumn[3] # "varchar_null"
              /\ <<NewColumn[1], NewColumn[2]>> \notin call.drops
          BY <2>4 DEF Dropped, NewColumn
        <4> QED
          BY <2>1, <2>5, <4>1 DEF Refused
      <3>3. events = 0
        BY <3>2 DEF HasRows, IInv
      <3> QED
        BY <2>1, <2>4, <3>1, <3>3
    <2>6. CASE NewColumn \notin call.adds
      <3>1. CASE Adds(todo)
        <4>1. PICK i \in DOMAIN todo : NewColumn \in todo[i].adds
          BY <3>1 DEF Adds
        <4>2. i - 1 \in DOMAIN todo' /\ todo'[i - 1] = todo[i]
          <5>1. i # 1
            BY <2>2, <2>6, <4>1
          <5> QED
            BY <2>2, <5>1
        <4> QED
          BY <2>4, <4>1, <4>2 DEF Adds
      <3>2. CASE events = 0 /\ NewColumn \in altered
        BY <2>1, <2>4, <3>2, ApplyElements
      <3> QED
        BY <2>1, <3>1, <3>2 DEF Guarded
    <2> QED
      BY <2>5, <2>6
  <1>6. CASE ExecuteFail \/ Abort
    BY <1>6 DEF ExecuteFail, Abort, Rollback
  <1>7. CASE Commit
    BY <1>7 DEF Commit, runVars
  <1>8. CASE UNCHANGED vars
    BY <1>8 DEF vars, Guarded, rowVars, runVars
  <1> QED
    BY <1>1, <1>2, <1>3, <1>4, <1>5, <1>6, <1>7, <1>8 DEF Next

\* An upgrade keeps every row, and drops a column only of a table without rows,
\* whatever the services write while it runs.
THEOREM UpgradesKeepData == Spec => UpgradeKeepsData
  <1> DEFINE Keeps == revision' > revision =>
                          /\ UNCHANGED rowVars
                          /\ \A column \in schema :
                                HasRows(column[1]) =>
                                    \E c \in schema' : c[1] = column[1] /\ c[2] = column[2]
  <1>1. Init => Guarded
    BY DEF Init, Guarded
  <1>2. IInv /\ Guarded /\ [Next]_vars => [Keeps]_vars
    <2> SUFFICES ASSUME IInv, Guarded, Next, revision' > revision
                 PROVE  /\ UNCHANGED rowVars
                        /\ \A column \in schema :
                              HasRows(column[1]) =>
                                  \E c \in schema' : c[1] = column[1] /\ c[2] = column[2]
      OBVIOUS
    <2>1. Commit
      <3>1. revision \in 0 .. 4
        BY DEF IInv
      <3>2. revision' # revision
        BY <3>1
      <3> QED
        BY <3>2 DEF Next, InsertEvent, InsertNotification, Upgrade, Downgrade, Execute, ExecuteFail,
                    Abort, Rollback, Commit
    <2>2. /\ todo = <<>> /\ revision' = target /\ schema' = altered
          /\ notifications' = IF Has(altered, "notifications") THEN notifications ELSE [k \in Keys |-> 0]
          /\ events' = IF Has(altered, "events") THEN events ELSE 0
      BY <2>1 DEF Commit
    <2>3. target = 4 /\ revision \in 0 .. 3
      BY <2>2 DEF IInv
    <2>4. altered = SchemaOf(4)
      BY <2>2, <2>3, AfterNothing DEF IInv
    <2>5. schema' = events_3 \cup notifications_3 \cup unique_4
      BY <2>2, <2>4, Schemas
    <2>6. Has(altered, "events") /\ Has(altered, "notifications")
      <3>1. <<"events", "id", "uuid">> \in altered /\ <<"notifications", "id", "uuid">> \in altered
        BY <2>4, Schemas DEF events_3, notifications_3
      <3> QED
        BY <3>1 DEF Has
    <2>7. UNCHANGED rowVars
      BY <2>2, <2>6 DEF rowVars
    <2>8. ASSUME NEW column \in schema, HasRows(column[1])
          PROVE  \E c \in schema' : c[1] = column[1] /\ c[2] = column[2]
      <3>1. CASE revision = 0
        BY <3>1, <2>8, Schemas DEF IInv
      <3>2. CASE revision = 1
        <4>1. events = 0
          <5>1. ~Adds(todo)
            BY <2>2 DEF Adds
          <5> QED
            BY <2>3, <3>2, <5>1 DEF Guarded
        <4>2. column[1] = "events"
          BY <2>8, <3>2, Schemas DEF IInv, events_1
        <4> QED
          BY <2>8, <4>1, <4>2 DEF HasRows
      <3>3. CASE revision = 2
        <4> DEFINE retyped == {<<"events", "created_at", "timestamp_utc">>,
                               <<"events", "event_occurred_at", "timestamp">>,
                               <<"notifications", "created_at", "timestamp_utc">>}
        <4>1. /\ <<"events", "created_at", "timestamptz_now">> \in schema'
              /\ <<"events", "event_occurred_at", "timestamptz">> \in schema'
              /\ <<"notifications", "created_at", "timestamptz_now">> \in schema'
          BY <2>5 DEF events_3, notifications_3
        <4>2. column \in events_2 \cup notifications_2
          BY <2>8, <3>3, Schemas DEF IInv
        <4>3. column \in schema' \/ column \in retyped
          BY <2>5, <4>2 DEF events_2, events_3, notifications_2, notifications_3
        <4>4. CASE column \in schema'
          BY <4>4
        <4>5. CASE column = <<"events", "created_at", "timestamp_utc">>
          BY <4>1, <4>5
        <4>6. CASE column = <<"events", "event_occurred_at", "timestamp">>
          BY <4>1, <4>6
        <4>7. CASE column = <<"notifications", "created_at", "timestamp_utc">>
          BY <4>1, <4>7
        <4> QED
          BY <4>3, <4>4, <4>5, <4>6, <4>7
      <3>4. CASE revision = 3
        <4>1. column \in schema'
          BY <2>5, <2>8, <3>4, Schemas DEF IInv
        <4> QED
          BY <4>1
      <3> QED
        BY <2>3, <3>1, <3>2, <3>3, <3>4
    <2> QED
      BY <2>7, <2>8
  <1>3. IInv /\ Guarded /\ [Next]_vars => Guarded'
    BY GuardedStep
  <1> QED
    BY <1>1, <1>2, <1>3, IInvInit, IInvStep, PTL DEF Spec, UpgradeKeepsData
=============================================================================

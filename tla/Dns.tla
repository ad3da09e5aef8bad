-------------------------------- MODULE Dns --------------------------------
(***************************************************************************)
(* DNS messages: the query that mdig makes and the addresses that it prints *)
(* from a reply (mdig/mdig.c), and the addresses of a reply to which the    *)
(* daemon notes the name that was asked for (nfq2/desync.c).                *)
(***************************************************************************)
EXTENDS Bytes, FiniteSets, FiniteSetsExt, SequencesExt

TypeA == 1
TypeAAAA == 28
DotByte == 46

-----------------------------------------------------------------------------
(* mdig --dns-make-query                                                   *)

\* The labels of a name: where in it each begins and ends.
LabelEnds(name) == {i \in 1 .. Len(name) + 1 : i = Len(name) + 1 \/ name[i] = DotByte}
LabelAt(name, e) == SubSeq(name, Max({0} \cup {i \in LabelEnds(name) : i < e}) + 1, e - 1)
Label(bytes) == <<Len(bytes)>> \o bytes

\* One dot at the end is dropped.
Undotted(name) == IF name # <<>> /\ Last(name) = DotByte THEN Front(name) ELSE name

\* dns_mk_query_blob: the query, with its unpredictable number id, or nothing
\* for a name that cannot be asked for.
dns_mk_query_blob(op, dname, class, type, id) ==
    LET name == Undotted(dname)
        ends == SetToSortSeq(LabelEnds(name), <)
    IN  IF \/ name # <<>> /\ Last(name) = DotByte
           \/ Len(name) > 253 \/ op > 15
           \/ name # <<>> /\ \E e \in LabelEnds(name) : Len(LabelAt(name, e)) \notin 1 .. 63
        THEN {}
        ELSE {N16(id) \o <<(op * 8) + 1, 0, 0, 1>> \o Zeros(6)
              \o (IF name = <<>> THEN <<>>
                  ELSE FlattenSeq([k \in DOMAIN ends |-> Label(LabelAt(name, ends[k]))]))
              \o <<0, 0, type, 0, class>>}

-----------------------------------------------------------------------------
(* Replies.                                                                *)

IsResponse(d) == Len(d) >= 12 /\ At(d, 2) >= 128
Questions(d) == U16(d, 4)
Answers(d) == U16(d, 6)
IsPointer(b) == b >= 192

\* Behind the answer at o: its name is a pointer and its data are whole.
PastAnswer(d, o) ==
    IF o + 12 > Len(d) \/ ~ IsPointer(At(d, o)) \/ o + 12 + U16(d, o + 10) > Len(d) THEN {}
    ELSE {o + 12 + U16(d, o + 10)}

Mut_AddressAt_AnySize(d, o) ==
    IF Cut(d, o + 4, 2) = <<0, 1>> /\ At(d, o + 2) = 0 /\ At(d, o + 3) \in {TypeA, TypeAAAA}
    THEN <<Cut(d, o + 12, U16(d, o + 10))>> ELSE <<>>

\* The address in an answer, if it is one.
AddressAt(d, o) ==
    IF /\ Cut(d, o + 4, 2) = <<0, 1>> /\ At(d, o + 2) = 0
       /\ <<At(d, o + 3), U16(d, o + 10)>> \in {<<TypeA, 4>>, <<TypeAAAA, 16>>}
    THEN <<Cut(d, o + 12, U16(d, o + 10))>> ELSE <<>>

\* The addresses in the answers from o on, and whether all n could be read.
ReadAnswers(d, o, n) ==
    LET read[k \in 0 .. n] ==
            IF k = 0 THEN [at |-> o, got |-> <<>>, ok |-> TRUE]
            ELSE LET r == read[k - 1]
                 IN  IF ~ r.ok \/ PastAnswer(d, r.at) = {} THEN [r EXCEPT !.ok = FALSE]
                     ELSE [at  |-> CHOOSE p \in PastAnswer(d, r.at) : TRUE,
                           got |-> r.got \o AddressAt(d, r.at), ok |-> TRUE]
    IN  read[n]

Unread == [got |-> <<>>, ok |-> FALSE]
Result(r) == [got |-> r.got, ok |-> r.ok]

\* Behind a name in a question, label by label, with its type and class.
PastQuestion(d, o) ==
    LET skip[i \in o .. Len(d)] ==
            IF i < Len(d) /\ At(d, i) # 0
            THEN (IF i + At(d, i) + 1 > Len(d) THEN {} ELSE skip[i + At(d, i) + 1])
            ELSE IF i + 5 > Len(d) THEN {} ELSE {i + 5}
    IN  skip[o]

\* dns_parse_print
dns_parse_print(d) ==
    IF ~ IsResponse(d) THEN Unread
    ELSE LET at[k \in 0 .. Questions(d)] ==
                 IF k = 0 THEN {12} ELSE UNION {PastQuestion(d, o) : o \in at[k - 1]}
             begins == at[Questions(d)]
         IN  IF begins = {} THEN Unread
             ELSE Result(ReadAnswers(d, CHOOSE o \in begins : TRUE, Answers(d)))

-----------------------------------------------------------------------------
(* The daemon.                                                             *)

NameSize == 256   \* of the buffer

\* The name whose labels begin at p, and what is behind it.
NameFrom(d, p) ==
    LET read[i \in p .. Len(d)] ==
            IF i >= Len(d) THEN {}
            ELSE IF At(d, i) = 0 THEN {[name |-> <<>>, past |-> i + 1]}
            ELSE {[name |-> Cut(d, i + 1, At(d, i))
                            \o (IF r.name = <<>> THEN <<>> ELSE <<DotByte>> \o r.name),
                   past |-> r.past] :
                        r \in IF i + At(d, i) + 1 >= Len(d) THEN {} ELSE read[i + At(d, i) + 1]}
    IN  {r \in read[p] : Len(r.name) + (IF Contains(r.name, DotByte) THEN 0 ELSE 1) < NameSize}

\* dns_extract_name: the name at o, which may be a pointer to one.
dns_extract_name(d, o) ==
    IF ~ IsPointer(At(d, o)) THEN NameFrom(d, o)
    ELSE LET p == ((At(d, o) % 64) * 256) + At(d, o + 1)
         IN  IF p >= Len(d) THEN {} ELSE {[r EXCEPT !.past = o + 2] : r \in NameFrom(d, p)}

\* Only questions for addresses are of interest.
AsksForAddress(d, o) ==
    /\ o + 4 <= Len(d)
    /\ Cut(d, o, 4) \in {<<0, TypeA, 0, 1>>, <<0, TypeAAAA, 0, 1>>}

\* feed_dns_response: the addresses that get the name of the last question.
feed_dns_response(d) ==
    LET asked[k \in 0 .. Questions(d)] ==
            IF k = 0 THEN {[name |-> <<>>, past |-> 12]}
            ELSE UNION {{[x EXCEPT !.past = @ + 4] : x \in {y \in dns_extract_name(d, q.past) : AsksForAddress(d, y.past)}}
                        : q \in {q \in asked[k - 1] : q.past < Len(d)}}
        last == IF IsResponse(d) THEN {q \in asked[Questions(d)] : q.name # <<>>} ELSE {}
    IN  IF last = {} THEN [name |-> <<>>] @@ Unread
        ELSE LET q == CHOOSE q \in last : TRUE
             IN  [name |-> q.name] @@ Result(ReadAnswers(d, q.past, Answers(d)))

=============================================================================

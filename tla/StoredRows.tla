------------------------------ MODULE StoredRows ------------------------------
(***************************************************************************)
(* How the store and the team store keep what they are given: as rows of   *)
(* tables that are created when first written to.  A kind and a role are   *)
(* kept as text and read back by a list of their own; embedding a symbol   *)
(* writes its whole row anew, from what was read back.  What a row holds   *)
(* besides (names, paths, lines, contents) is one value, body.  Rows are   *)
(* read in the order they were written in; after a merge the order is the  *)
(* database's, which is that of the rows here.                             *)
(***************************************************************************)
EXTENDS Naturals, Sequences, FiniteSets, SequencesExt

CONSTANTS
    RowUids,        \* bound: uids of symbols
    Bodies,         \* bound: what a symbol row holds besides
    GivenKinds,     \* bound: kinds of the symbols that are stored
    Embeddings,     \* bound: embeddings, each of length one, at right angles
    Users,          \* bound: users of a team store
    TeamUids,       \* bound: teams
    Threshold,      \* rows of a batch of embeddings from which on an index is built
    MaxRows         \* bound: rows that are stored

ZeroVector == "zero vector"
Null == "null"
Newer == "Macro"               \* the text of a kind that only a later build knows
SymbolKinds == {"Function", "Method", "Class", "Interface", "TypeAlias", "Variable", "Constant",
                "Enum", "Module", "Import", "Section", "Document", "Rationale", "Email",
                "Conversation", "Person", "Attachment"}

ASSUME RowsAssumption ==
    /\ GivenKinds \subseteq SymbolKinds
    /\ {ZeroVector, Null} \cap Embeddings = {}
    /\ Threshold \in Nat /\ MaxRows \in Nat

VARIABLES
    rows,           \* the symbols table: sequence of rows
    edgeRows,       \* the relationships table
    indexed,        \* an ANN index was built
    given,          \* ghost: the symbols in the order they were stored
    edgesGiven,     \* ghost: the relationships
    embedded,       \* ghost: the last vector a row in the table was given, for each uid
    teams, members, \* the tables of the team store
    joined          \* ghost: who was added to which team

rowVars == <<rows, edgeRows, indexed, given, edgesGiven, embedded, teams, members, joined>>

\* SymbolKind's Display, by the name of the variant.
SymbolText ==
    [Function |-> "Function", Method |-> "Method", Class |-> "Class", Interface |-> "Interface",
     TypeAlias |-> "TypeAlias", Variable |-> "Variable", Constant |-> "Constant",
     Enum |-> "Enum", Module |-> "Module", Import |-> "Import", Section |-> "Section",
     Document |-> "Document", Rationale |-> "Rationale", Email |-> "Email",
     Conversation |-> "Conversation", Person |-> "Person", Attachment |-> "Attachment"]

\* SymbolKind's FromStr knows these texts, and takes any other for a variable.
SymbolTexts ==
    {"Function", "Method", "Class", "Interface", "TypeAlias", "Variable", "Constant", "Enum",
     "Module", "Import", "Section", "Document", "Rationale", "Email", "Conversation", "Person",
     "Attachment"}

ParseSymbolKind(t) == IF t \in SymbolTexts THEN t ELSE "Variable"

RelationshipText ==
    [Calls |-> "CALLS", ContainedBy |-> "CONTAINED_BY", MemberOf |-> "MEMBER_OF",
     StepInProcess |-> "STEP_IN_PROCESS", Imports |-> "IMPORTS", References |-> "REFERENCES",
     RationaleFor |-> "RATIONALE_FOR", ReplyTo |-> "REPLY_TO", SentBy |-> "SENT_BY",
     ReceivedBy |-> "RECEIVED_BY", HasAttachment |-> "HAS_ATTACHMENT",
     PartOfConversation |-> "PART_OF_CONVERSATION", Mentions |-> "MENTIONS"]

ParseRelationshipKind(t) ==
    CASE t = "CALLS" -> "Calls" [] t = "CONTAINED_BY" -> "ContainedBy"
      [] t = "MEMBER_OF" -> "MemberOf" [] t = "STEP_IN_PROCESS" -> "StepInProcess"
      [] t = "IMPORTS" -> "Imports" [] t = "REFERENCES" -> "References"
      [] t = "RATIONALE_FOR" -> "RationaleFor" [] t = "REPLY_TO" -> "ReplyTo"
      [] t = "SENT_BY" -> "SentBy" [] t = "RECEIVED_BY" -> "ReceivedBy"
      [] t = "HAS_ATTACHMENT" -> "HasAttachment"
      [] t = "PART_OF_CONVERSATION" -> "PartOfConversation" [] t = "MENTIONS" -> "Mentions"
      [] OTHER -> "Calls"

Roles == {"owner", "admin", "member", "viewer"}
ParseRole(t) == IF t \in {"owner", "admin", "member", "viewer"} THEN t ELSE "viewer"

-----------------------------------------------------------------------------
\* symbols_to_batch: a new row has no vector yet.
SymbolRow(s) ==
    [uid |-> s.uid, kind |-> SymbolText[s.kind], body |-> s.body, meta |-> s.meta, vector |-> ZeroVector]

\* Mutant of ReadSymbol: an empty metadata text is one.
ReadSymbolAsIs(r) ==
    [uid |-> r.uid, kind |-> ParseSymbolKind(r.kind), body |-> r.body, meta |-> r.meta]

\* get_symbols: an empty metadata text is none.
ReadSymbol(r) ==
    [uid |-> r.uid, kind |-> ParseSymbolKind(r.kind), body |-> r.body,
     meta |-> IF r.meta = "" THEN Null ELSE r.meta]

GetSymbols == [i \in DOMAIN rows |-> ReadSymbol(rows[i])]

\* get_symbols_with_vectors: the zero vector is none.
GetVector(i) == IF rows[i].vector = ZeroVector THEN Null ELSE rows[i].vector

GetRelationships == [i \in DOMAIN edgeRows |-> ParseRelationshipKind(edgeRows[i])]

\* vector_search: twice the score of every row, for a vector at right angles to the others;
\* metadata is never filled in.  A row that was not embedded is nearer than most.
Score(i, q) == CASE rows[i].vector = q -> 2 [] rows[i].vector = ZeroVector -> 1 [] OTHER -> 0

VectorSearch(q, limit) ==
    LET best == {i \in DOMAIN rows : Cardinality({j \in DOMAIN rows : Score(j, q) > Score(i, q)}) < limit}
    IN  {[ReadSymbol(rows[i]) EXCEPT !.meta = Null] : i \in best}

TeamAt(id) == SelectInSeq(teams, LAMBDA t : t.uid = id)

\* get_teams_for_user: owned ones, then those of a membership that are not there yet.
TeamsForUser(u) ==
    LET owned[i \in 0..Len(teams)] ==
            IF i = 0 THEN <<>>
            ELSE IF teams[i].owner = u THEN Append(owned[i - 1], teams[i]) ELSE owned[i - 1]
        found[i \in 0..Len(members)] ==
            IF i = 0 THEN owned[Len(teams)]
            ELSE IF /\ members[i].user = u
                    /\ TeamAt(members[i].team) # 0
                    /\ \A t \in Range(found[i - 1]) : t.uid # members[i].team
                 THEN Append(found[i - 1], teams[TeamAt(members[i].team)])
                 ELSE found[i - 1]
    IN  found[Len(members)]

GetMembers(team) == {[user |-> m.user, role |-> ParseRole(m.role)] :
                        m \in {x \in Range(members) : x.team = team}}

-----------------------------------------------------------------------------
RowsInit ==
    /\ rows = <<>> /\ edgeRows = <<>> /\ indexed = FALSE
    /\ given = <<>> /\ edgesGiven = <<>> /\ embedded = [u \in RowUids |-> Null]
    /\ teams = <<>> /\ members = <<>> /\ joined = {}

codeVars == <<rows, edgeRows, indexed, given, edgesGiven, embedded>>
teamVars == <<teams, members, joined>>

\* store_symbols adds rows, whether or not there are some with the same uid.
StoreSymbol ==
    /\ Len(rows) < MaxRows
    /\ \E u \in RowUids, k \in GivenKinds, b \in Bodies, m \in {Null, "", "{}"} :
          LET s == [uid |-> u, kind |-> k, body |-> b, meta |-> m]
          IN  /\ rows' = Append(rows, SymbolRow(s))
              /\ given' = Append(given, s)
              /\ embedded' = [embedded EXCEPT ![u] = Null]
    /\ UNCHANGED <<edgeRows, indexed, edgesGiven, teamVars>>

\* A later build stored a symbol of a kind that this one does not know.
StoreNewer ==
    /\ Len(rows) < MaxRows
    /\ \E u \in RowUids, b \in Bodies :
          /\ rows' = Append(rows, [uid |-> u, kind |-> Newer, body |-> b, meta |-> Null,
                                   vector |-> ZeroVector])
          /\ given' = Append(given, [uid |-> u, kind |-> Newer, body |-> b, meta |-> Null])
          /\ embedded' = [embedded EXCEPT ![u] = Null]
    /\ UNCHANGED <<edgeRows, indexed, edgesGiven, teamVars>>

StoreRelationship ==
    /\ Len(edgeRows) < MaxRows
    /\ \E k \in {"Calls", "Mentions"} :
          edgeRows' = Append(edgeRows, RelationshipText[k]) /\ edgesGiven' = Append(edgesGiven, k)
    /\ UNCHANGED <<rows, indexed, given, embedded, teamVars>>

\* store_embeddings: the last row that is read of a uid, with its vector, replaces all rows of
\* the uid.  An index is built for as many rows as the batch has.
StoreEmbeddings ==
    /\ \E batch \in (SUBSET RowUids) \ {{}}, v \in Embeddings :
          LET last(u) == SelectLastInSeq(rows, LAMBDA r : r.uid = u)
              known   == {u \in batch : last(u) # 0}
              anew(u) == LET s == ReadSymbol(rows[last(u)])
                         IN  [uid |-> u, kind |-> SymbolText[s.kind], body |-> s.body,
                              meta |-> s.meta, vector |-> v]
          IN  /\ known # {}
              /\ rows' = [i \in DOMAIN rows |->
                             IF rows[i].uid \in known THEN anew(rows[i].uid) ELSE rows[i]]
              /\ embedded' = [u \in RowUids |-> IF u \in known THEN v ELSE embedded[u]]
              /\ indexed' = (indexed \/ Cardinality(batch) >= Threshold)
    /\ UNCHANGED <<edgeRows, given, edgesGiven, teamVars>>

\* create_team: the caller makes up a new uid.
CreateTeam ==
    /\ \E t \in TeamUids, u \in Users :
          /\ \A x \in Range(teams) : x.uid # t
          /\ teams' = Append(teams, [uid |-> t, owner |-> u])
    /\ UNCHANGED <<codeVars, members, joined>>

\* add_member: of any team, known or not, however often; the team's member_count stays.
AddMember ==
    /\ Len(members) < MaxRows
    /\ \E t \in TeamUids, u \in Users, r \in {"admin", "viewer"} :
          /\ members' = Append(members, [team |-> t, user |-> u, role |-> r])
          /\ joined' = joined \cup {<<t, u, r>>}
    /\ UNCHANGED <<codeVars, teams>>

\* The two stores are databases of their own: only one is in use.
RowsNext ==
    \/ teams = <<>> /\ members = <<>>
       /\ (StoreSymbol \/ StoreNewer \/ StoreRelationship \/ StoreEmbeddings)
    \/ rows = <<>> /\ edgeRows = <<>> /\ (CreateTeam \/ AddMember)

RowsSpec == RowsInit /\ [][RowsNext]_rowVars

-----------------------------------------------------------------------------
\* Every kind and role that is written is read back as what it was.
KindsSurvive ==
    /\ \A k \in SymbolKinds : ParseSymbolKind(SymbolText[k]) = k
    /\ \A k \in DOMAIN RelationshipText : ParseRelationshipKind(RelationshipText[k]) = k
    /\ \A r \in Roles : ParseRole(r) = r

OnlyRow(i) == \A j \in DOMAIN given : given[j].uid = given[i].uid => j = i

RowsOf(u)  == {n \in DOMAIN rows : rows[n].uid = u}

\* What is read are the uids that were stored, and what was stored once under its uid is read
\* as that: an empty metadata is none, and a kind this build does not know is a variable.
\* Nothing is asked of a uid that was stored again: store_symbols is said to replace its rows
\* (store.rs:216), and adds to them.
RowsAreRead ==
    /\ {s.uid : s \in Range(GetSymbols)} = {g.uid : g \in Range(given)}
    /\ \A i \in DOMAIN given : OnlyRow(i) =>
          {s \in Range(GetSymbols) : s.uid = given[i].uid} =
              {[uid  |-> given[i].uid,
                kind |-> IF given[i].kind = Newer THEN "Variable" ELSE given[i].kind,
                body |-> given[i].body,
                meta |-> IF given[i].meta = "" THEN Null ELSE given[i].meta]}
    /\ GetRelationships = edgesGiven

\* A row has the vector its uid was last given, and none if it was stored later.
VectorsAreLast ==
    \A i \in DOMAIN given : OnlyRow(i) =>
        \A n \in RowsOf(given[i].uid) : GetVector(n) = embedded[given[i].uid]

\* The text of a kind of a later build stays what it was until its symbol is embedded.
NewerIsKept ==
    \A i \in DOMAIN given :
        given[i].kind = Newer /\ OnlyRow(i) =>
            \A n \in RowsOf(given[i].uid) :
                rows[n].kind = (IF embedded[given[i].uid] = Null THEN Newer ELSE "Variable")

\* What was embedded exactly as asked for is found before anything else.
SearchFindsEmbedded ==
    \A q \in Embeddings : \A i \in DOMAIN rows :
        rows[i].vector = q =>
            [ReadSymbol(rows[i]) EXCEPT !.meta = Null] \in VectorSearch(q, 1)

\* The teams of a user are those it owns or was added to, each once, and every member has
\* the role it was added with.
TeamsAreWhole ==
    \A u \in Users :
        /\ {t.uid : t \in Range(TeamsForUser(u))}
              = {t.uid : t \in {x \in Range(teams) :
                    x.owner = u \/ \E j \in joined : j[1] = x.uid /\ j[2] = u}}
        /\ IsInjective(TeamsForUser(u))
        /\ \A t \in TeamUids : {m \in GetMembers(t) : m.user = u}
              = {[user |-> u, role |-> j[3]] : j \in {x \in joined : x[1] = t /\ x[2] = u}}

\* Rows survive being stored, read and embedded.
RowsSurvive ==
    /\ KindsSurvive
    /\ RowsAreRead
    /\ VectorsAreLast
    /\ NewerIsKept
    /\ SearchFindsEmbedded
    /\ TeamsAreWhole
=============================================================================

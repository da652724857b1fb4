------------------------------- MODULE ReadTools -------------------------------
(***************************************************************************)
(* The read-only operations of the program over one index: MCP tools, CLI  *)
(* commands and HTTP handlers.  Each loads the tables it needs, whole and  *)
(* one after the other, each with a query of its own, and then computes    *)
(* its answer in memory from what it loaded.  A definition is the order in *)
(* which its handler loads them and what it does when one cannot be read:  *)
(* tools and commands fail, HTTP handlers go on with an empty table        *)
(* (unwrap_or_default) but for a vector search.  What they compute is a    *)
(* function of those tables; other modules look into it (GraphSearch,      *)
(* ProcessTree, RepoResolution and those that extend StoredGraph).  A      *)
(* vector search is a read of the symbols table, which holds the vectors;  *)
(* an operation that may end before a read is here with all of them.       *)
(***************************************************************************)
EXTENDS Sequences

S == <<"symbols">>
F == <<"files">>
R == <<"relationships">>
C == <<"communities">>
P == <<"processes">>
Snapshot == <<"snapshot">>
Versions == <<"versions">>

\* The first `lenient` reads may fail and leave an empty table.
Serve(defaulted, required) == [reads |-> defaulted \o required, lenient |-> Len(defaulted)]
Strict(reads)  == Serve(<<>>, reads)
Lenient(reads) == Serve(reads, <<>>)

-----------------------------------------------------------------------------
(* MCP tools and resources *)
ContextSearch             == Strict(S)
SymbolContext             == Strict(S \o R)
HybridSearch              == Strict(S \o S \o R)
CypherQuery               == Strict(S \o F \o R)
DetectImpactTool          == Strict(S \o R)
RenameSymbol              == Strict(S \o R)
SemanticSearch            == Strict(S)
GetReviewContext          == Strict(S \o R \o C)
GetProcesses              == Strict(P)
GetCommunities            == Strict(C)
GetCommunityDetail        == Strict(C \o S \o R)
GetSymbolDefinition       == Strict(S)
FindDeadCode              == Strict(S \o R)
GetCallers                == Strict(S \o R)
GetCallees                == Strict(S \o R)
GetFileSymbols            == Strict(S)
GetGodNodes               == Strict(S \o R)
GetSurprisingConnections  == Strict(S \o R)
FindPathTool              == Strict(S \o R)
QueryKnowledge            == Strict(S \o R)
GetRationale              == Strict(S \o R)
GetKnowledgeGaps          == Strict(S \o R \o C)
GetStats                  == Strict(S \o F \o R \o C \o P)
GetSuggestedQuestions     == Strict(S \o R \o F)
GetGraphDiff              == Strict(Snapshot \o S \o R)
SearchEmails              == Strict(S \o R)
GetConversation           == Strict(S \o R)
GetPersonContext          == Strict(S \o R)
GetGitContext             == Strict(S)
IsolateIntent             == Strict(S \o R \o C)
DifferentiateIntent       == Strict(S \o R \o C \o S)
PlanAdaptation            == Strict(S \o R \o C \o S)
GetCentralityReport       == Strict(S \o R)
GetCommunityMetrics       == Strict(S \o R)
DetectCircularDependencies == Strict(S \o R)
GetDependencies           == Strict(S \o R)
GetModuleCoupling         == Strict(S \o R)
ExportMermaid             == Strict(S \o R)
QualityHotspots           == Strict(S \o R)
ArchitectureLint          == Strict(S \o R)
ArchitectureView          == Strict(S \o R \o C)
DetectArchitectureDrift   == Strict(Snapshot \o S \o R \o C)
GetOwnership              == Strict(S)
GetContracts              == Strict(S)
SnapshotDiff              == Strict(Versions)
OverviewResource          == Strict(S \o F \o R \o C \o P)
CommunityResources        == Strict(C)
ProcessResource           == Strict(P)

(* CLI commands *)
CmdStats          == Strict(S \o F \o R \o C \o P)
CmdExport         == Strict(S \o R \o C)
CmdSearch         == Strict(S \o S \o R)
CmdCommunities    == Strict(C)
CmdQuery          == Strict(S \o F \o R)
CmdRename         == Strict(S \o R)
CmdImpact         == Strict(S \o R)
CmdKnowledge      == Strict(S \o R)
CmdProcesses      == Strict(P)
CmdSemanticSearch == Strict(S)
CmdReport         == Strict(S \o R \o C \o P \o F)
CmdPath           == Strict(S \o R)
CmdWiki           == Strict(S \o R \o C)
CmdDiff           == Strict(Snapshot \o S \o R)

(* HTTP handlers: build_community_map loads the communities once more *)
HttpGraph            == Lenient(S \o R \o C \o C \o P)
HttpSymbol           == Lenient(S \o R)
HttpStats            == Lenient(S \o F \o R \o C)
HttpCentrality       == Lenient(S \o R)
HttpCommunityMetrics == Lenient(S \o R)
HttpModuleCoupling   == Lenient(S \o R)
HttpCycles           == Lenient(S \o R)
HttpProcesses        == Lenient(S \o P)
HttpKnowledge        == Lenient(S \o R)
HttpOverview         == Lenient(S \o R \o C)
HttpNode             == Serve(S \o R \o C, S \o S)
HttpSearch           == Strict(S)

McpTools ==
    {ContextSearch, SymbolContext, HybridSearch, CypherQuery, DetectImpactTool,
     RenameSymbol, SemanticSearch, GetReviewContext, GetProcesses, GetCommunities,
     GetCommunityDetail, GetSymbolDefinition, FindDeadCode, GetCallers,
     GetCallees, GetFileSymbols, GetGodNodes, GetSurprisingConnections,
     FindPathTool, QueryKnowledge, GetRationale, GetKnowledgeGaps, GetStats,
     GetSuggestedQuestions, GetGraphDiff, SearchEmails, GetConversation,
     GetPersonContext, GetGitContext, IsolateIntent, DifferentiateIntent,
     PlanAdaptation, GetCentralityReport, GetCommunityMetrics,
     DetectCircularDependencies, GetDependencies, GetModuleCoupling,
     ExportMermaid, QualityHotspots, ArchitectureLint, ArchitectureView,
     DetectArchitectureDrift, GetOwnership, GetContracts, SnapshotDiff,
     OverviewResource, CommunityResources, ProcessResource}
CliCommands ==
    {CmdStats, CmdExport, CmdSearch, CmdCommunities, CmdQuery, CmdRename,
     CmdImpact, CmdKnowledge, CmdProcesses, CmdSemanticSearch, CmdReport, CmdPath,
     CmdWiki, CmdDiff}
HttpHandlers ==
    {HttpGraph, HttpSymbol, HttpStats, HttpCentrality, HttpCommunityMetrics,
     HttpModuleCoupling, HttpCycles, HttpProcesses, HttpKnowledge, HttpOverview,
     HttpNode, HttpSearch}

Tools == McpTools \cup CliCommands \cup HttpHandlers
=============================================================================

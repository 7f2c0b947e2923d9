------------------------------- MODULE ToolNames -------------------------------
(***************************************************************************)
(* The names of a request's tools (conversion/tool_context.rs).  The chat  *)
(* API knows flat functions with short names, the Responses API functions, *)
(* custom tools, namespaces of functions and a tool search.  ToolContext   *)
(* gives each tool a chat name, and finds the tool of a chat name (when    *)
(* the model calls it) and the chat name of a tool (when a call is         *)
(* replayed from the history).                                             *)
(*                                                                         *)
(* A name is a sequence of characters.  Descriptions and parameters are    *)
(* left out.                                                               *)
(***************************************************************************)
EXTENDS Naturals, Sequences, SequencesExt, FiniteSetsExt

CONSTANTS
  Characters,     \* the characters of names
  Legal,          \* those the chat API allows
  ToolDefs,       \* the tools a request may declare
  MaxTools,       \* tools declared: a bound
  MaxLen,         \* CHAT_TOOL_NAME_MAX_LEN, 64 in the code
  ToolSearchName, \* TOOL_SEARCH_NAME
  MaxNumber,      \* the highest number behind a name: a bound
  Decimal         \* Decimal[n] is a number as it is written

Underscore == "_"
Space == "sp"
ToolWord == <<"t">>  \* the name of a tool without one, "tool" in the code

ASSUME BoundsAssumption == MaxTools \in Nat /\ MaxLen \in Nat \ {0} /\ MaxNumber \in Nat

ASSUME NamesAssumption ==
  /\ Underscore \in Legal /\ Legal \subseteq Characters
  /\ \A name \in {ToolSearchName, ToolWord} : name \in Seq(Legal) /\ Len(name) \in 1..MaxLen

ASSUME ToolDefsAssumption ==
  ToolDefs \subseteq [type : {"function", "custom", "namespace", "tool_search"},
                     name : Seq(Characters), children : Seq(Seq(Characters))]

ASSUME NumbersAssumption ==
  /\ Decimal \in [2..MaxNumber -> Seq(Legal \ {Underscore})]
  /\ \A m, n \in 2..MaxNumber : Decimal[m] = Decimal[n] => m = n
  /\ \A n \in 2..MaxNumber : Len(Decimal[n]) < MaxLen

VARIABLES
  context,   \* the ToolContext
  declared,  \* how many of the tools were taken up
  open       \* the namespace whose children are being added, and those left

toolVars == <<context, declared, open>>

NoNamespace == <<>>

Trim(s) ==
  LET solid == {i \in DOMAIN s : s[i] # Space}
  IN IF solid = {} THEN <<>> ELSE SubSeq(s, Min(solid), Max(solid))

Take(s, n) == SubSeq(s, 1, IF n < Len(s) THEN n ELSE Len(s))

Flat(namespace, name) == namespace \o <<Underscore, Underscore>> \o name

-------------------------------------------------------------------------------
(* A chat name for a tool: its name with other characters replaced and cut *)
(* to length, with the first free number behind it when it is taken.       *)

Sanitized(original) ==
  LET base == Take([i \in DOMAIN original |-> IF original[i] \in Legal THEN original[i] ELSE Underscore],
                   MaxLen)
  IN IF base = <<>> THEN ToolWord ELSE base

(* Mutant: the numbered name may be longer than the longest.               *)
NumberedTooLong(base, n) == base \o <<Underscore>> \o Decimal[n]

Numbered(base, n) == Take(base, MaxLen - 1 - Len(Decimal[n])) \o <<Underscore>> \o Decimal[n]

SafeName(used, original) ==
  LET base == Sanitized(original)
  IN IF base \notin used THEN base
     ELSE Numbered(base, Min({n \in 2..MaxNumber : Numbered(base, n) \notin used}))

-------------------------------------------------------------------------------
(* Adding tools.  A spec is what the context knows of a chat name.         *)

Insert(map, key, value) ==
  [k \in DOMAIN map \cup {key} |-> IF k = key THEN value ELSE map[k]]

AddChatTool(c, original, spec) ==
  [c EXCEPT !.chatTools = Append(@, spec.chatName),
            !.used = @ \cup {spec.chatName},
            !.reverseNames = Insert(@, spec.chatName, original),
            !.specs = Insert(@, spec.chatName, spec)]

AddPlain(c, kind, original, name) ==
  IF original = <<>> THEN c
  ELSE AddChatTool(c, original,
         [kind |-> kind, name |-> name, namespace |-> NoNamespace,
          chatName |-> SafeName(c.used, original)])

(* A namespaced function is also found by its namespace and name.          *)
AddNamespaced(c, namespace, name) ==
  LET original == Flat(namespace, name)
      chatName == SafeName(c.used, original)
  IN AddChatTool([c EXCEPT !.namespaced = Insert(@, <<namespace, name>>, chatName)], original,
       [kind |-> "namespace", name |-> name, namespace |-> namespace, chatName |-> chatName])

AddResponseTool(c, t) ==
  CASE t.type = "namespace" -> c
    [] t.type = "custom" -> AddPlain(c, "custom", Trim(t.name), Trim(t.name))
    [] t.type = "tool_search" -> AddPlain(c, "tool_search", ToolSearchName, ToolSearchName)
    [] t.type = "function" -> AddPlain(c, "function", Trim(t.name), t.name)

(* The call item the client gets when the model calls a chat name.         *)
ResponseToolItem(c, chat) ==
  IF chat \in DOMAIN c.specs
  THEN [type |-> IF c.specs[chat].kind = "namespace" THEN "function" ELSE c.specs[chat].kind,
        name |-> c.specs[chat].name, namespace |-> c.specs[chat].namespace]
  ELSE [type |-> "function", name |-> chat, namespace |-> NoNamespace]

(* Mutant: the specs are searched for the name, whatever its namespace.    *)
ChatNameIgnoringNamespace(c, name, namespace) ==
  LET known == {chat \in DOMAIN c.specs : c.specs[chat].name = name}
  IN IF known # {} THEN known ELSE {Take(name, MaxLen)}

(* The chat names a replayed call may get: reverse_names is searched in    *)
(* the order of a hash map.                                                *)
ChatNameForResponseFunction(c, name, namespace) ==
  LET known == {chat \in DOMAIN c.reverseNames : c.reverseNames[chat] = name}
  IN IF namespace # NoNamespace
     THEN IF <<namespace, name>> \in DOMAIN c.namespaced
          THEN {c.namespaced[<<namespace, name>>]}
          ELSE {Take(Flat(namespace, name), MaxLen)}
     ELSE IF known # {} THEN known ELSE {name}

(* The same for an item of the history: a search keeps its own name.       *)
ReplayedNames(c, item) ==
  IF item.type = "tool_search" THEN {ToolSearchName}
  ELSE ChatNameForResponseFunction(c, item.name, item.namespace)

-------------------------------------------------------------------------------
(* A request's tools, those declared and then those that earlier tool      *)
(* searches in its input found, which may be the same again.  The children *)
(* of a namespace follow it one by one; those without a name are skipped.  *)

NoChildren == [namespace |-> NoNamespace, children |-> <<>>]

ToolInit ==
  /\ context = [chatTools |-> <<>>, used |-> {}, reverseNames |-> <<>>, specs |-> <<>>,
                namespaced |-> <<>>]
  /\ declared = 0
  /\ open = NoChildren

NumbersLeft == Cardinality(context.used) + 2 <= MaxNumber

BuildWithInput ==
  /\ declared < MaxTools /\ open.children = <<>> /\ NumbersLeft
  /\ \E t \in ToolDefs :
       /\ context' = AddResponseTool(context, t)
       /\ open' = IF t.type = "namespace" /\ Trim(t.name) # <<>>
                  THEN [namespace |-> Trim(t.name), children |-> t.children]
                  ELSE NoChildren
  /\ declared' = declared + 1

AddNamespace ==
  /\ open.children # <<>> /\ NumbersLeft
  /\ LET child == Head(open.children)
     IN context' = IF Trim(child) = <<>> THEN context
                   ELSE AddNamespaced(context, open.namespace, child)
  /\ open' = [open EXCEPT !.children = Tail(@)]
  /\ UNCHANGED declared

Built == declared = MaxTools /\ open.children = <<>> /\ UNCHANGED toolVars

ToolNext == BuildWithInput \/ AddNamespace \/ Built

ToolSpec == ToolInit /\ [][ToolNext]_toolVars

-------------------------------------------------------------------------------
(* Properties.                                                             *)

(* The upstream accepts the tools: no two have the same name, and every    *)
(* name is legal and short enough, also those that got a number because    *)
(* they collide once cut and flattened.                                    *)
ChatNamesUsable ==
  /\ \A i, j \in DOMAIN context.chatTools :
       context.chatTools[i] = context.chatTools[j] => i = j
  /\ \A i \in DOMAIN context.chatTools :
       /\ Len(context.chatTools[i]) \in 1..MaxLen
       /\ ToSet(context.chatTools[i]) \subseteq Legal

(* When the model calls a tool and the client replays that call, the chat  *)
(* name the next payload has for it is an offered one, and of the same     *)
(* tool.  Left out: functions declared with blanks around their name,      *)
(* which the replay does not trim.  Two different tools with one flat      *)
(* name have two chat names, but the replay may then take either.  A tool  *)
(* search is always replayed by its own name, which is another tool's chat *)
(* name if a tool declared before it has that name once sanitised.         *)
NamesComeBack ==
  \A chat \in DOMAIN context.specs :
    LET item == ResponseToolItem(context, chat)
        rivals == {o \in DOMAIN context.specs :
                     /\ \/ context.reverseNames[o] = context.reverseNames[chat]
                        \/ item.type = "tool_search" /\ o = ToolSearchName
                     /\ ResponseToolItem(context, o) # item}
    IN item.namespace # NoNamespace \/ item.name = Trim(item.name) =>
         \A back \in ReplayedNames(context, item) :
           /\ back \in ToSet(context.chatTools)
           /\ item.namespace # NoNamespace \/ rivals = {} =>
                ResponseToolItem(context, back) = item
===============================================================================

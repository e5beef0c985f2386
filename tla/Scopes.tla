------------------------------- MODULE Scopes ------------------------------
(***************************************************************************)
(* Variables, namespaces and function calls of one Interpreter: the stack  *)
(* of scopes, the three fields that say where the interpreter is           *)
(* (currentNamespace, project_ctx, currentTarget), and what each visit     *)
(* method saves, changes and restores.                                     *)
(*                                                                         *)
(* A name is the sequence of its identifiers: n:x is <<n, x>>.  The script *)
(* is left open: wherever the grammar allows a statement, any statement    *)
(* may come.  `stack` is the C++ call stack of the visit methods that      *)
(* save something.  An exception other than a return is caught by nobody   *)
(* in the interpreter and the object is not used again: the behaviour ends *)
(* there, which a specification without fairness always allows.            *)
(***************************************************************************)
EXTENDS Naturals, Sequences, FiniteSets

CONSTANTS
  Ids,          \* identifiers of variables and of import aliases
  Namespaces,   \* identifiers of namespaces
  Functions,    \* identifiers of functions
  Targets,      \* identifiers of targets
  Plain,        \* values that are no ProjectContext
  Assigned,     \* the values declarations give: plain ones, contexts
  Contexts,     \* the ProjectContexts of this file and of loaded ones
  Home,         \* the context of the file this interpreter runs
  Predefined,   \* globals the constructor puts into the main file's context
  Offered,      \* the functions each context has when this file starts
  NoTarget, NotFound,
  MaxStack,     \* bound: nesting of blocks, calls and loops
  MaxLoop       \* bound: elements of the container of a for loop

ASSUME HomeAssumption ==
  /\ Home \in Contexts
  /\ Offered \in [Contexts -> SUBSET {<<n, f>> : n \in Namespaces, f \in Functions}]
  /\ Offered[Home] = {}
ASSUME NullAssumption == NoTarget \notin Targets /\ NotFound \notin Plain \cup Contexts \cup Targets
ASSUME AssignedAssumption == Assigned \subseteq Plain \cup Contexts
ASSUME BoundsAssumption == MaxStack \in Nat /\ MaxLoop \in Nat

VARIABLES
  ns,         \* currentNamespace
  ctx,        \* project_ctx
  target,     \* currentTarget
  scopes,     \* tables of variables, the global one first
  globals,    \* ProjectContext::globals
  functions,  \* ProjectContext::functions: the names defined
  props,      \* Target::custom_vars
  stack       \* the visits in progress that restore something at their end

place == <<ns, ctx, target>>
vars == <<place, scopes, globals, functions, props, stack>>

Values == Plain \cup Contexts \cup Targets
Empty == [name \in {} |-> NotFound]
Put(table, name, v) ==
  [m \in DOMAIN table \cup {name} |-> IF m = name THEN v ELSE table[m]]

Init ==
  /\ ns = <<>> /\ ctx = Home /\ target = NoTarget
  /\ scopes = <<Empty>>
  /\ globals = [c \in Contexts |-> IF c = Home THEN Predefined ELSE Empty]
  /\ functions = Offered
  /\ props = [t \in Targets |-> Empty]
  /\ stack = <<>>

---------------------------------------------------------------------------
(* Names: in a namespace, a simple name is first tried with its prefix.    *)
Candidates(name) ==
  IF Len(name) = 1 /\ ns # <<>> THEN <<ns \o name, name>> ELSE <<name>>

Has(table, names) == \E k \in DOMAIN names : names[k] \in DOMAIN table
FirstIn(table, names) ==
  names[CHOOSE k \in DOMAIN names :
          /\ names[k] \in DOMAIN table
          /\ \A j \in 1..(k - 1) : names[j] \notin DOMAIN table]

(* The nearest scope, from the top of the stack down, with one of names.   *)
HoldingFirst(names) ==
  LET by(k) == {i \in DOMAIN scopes : names[k] \in DOMAIN scopes[i]}
  IN IF by(1) # {} THEN by(1) ELSE by(Len(names))
Holding(names) == {i \in DOMAIN scopes : Has(scopes[i], names)}
Nearest(names) == CHOOSE i \in Holding(names) : \A j \in Holding(names) : j <= i

(* resolveVariable: the scopes, then the globals, then the targets.        *)
Resolve(name) ==
  LET names == Candidates(name)
      top == Nearest(names)
  IN IF Holding(names) # {} THEN scopes[top][FirstIn(scopes[top], names)]
     ELSE IF Has(globals[ctx], names) THEN globals[ctx][FirstIn(globals[ctx], names)]
     ELSE IF Len(name) = 1 /\ name[1] \in Targets THEN name[1]
     ELSE NotFound

(* The function a call of q means, if any: its context and its name there. *)
(* A first identifier that holds a context selects it; what is not found   *)
(* there, or not that way, is looked for under its whole name.             *)
Callee(q) ==
  LET base == Resolve(<<Head(q)>>)
  IN IF Len(q) > 1 /\ base \in Contexts /\ Tail(q) \in functions[base]
       THEN {[ctx |-> base, name |-> Tail(q)]}
     ELSE {[ctx |-> ctx, name |-> q]} \cap [ctx : {ctx}, name : functions[ctx]]

(* The global variables of a namespace carry its prefix.                   *)
Prefixed(name) ==
  IF Len(scopes) = 1 /\ ns # <<>> /\ Len(name) = 1 THEN ns \o name ELSE name

PutAt(i, name, v) == [scopes EXCEPT ![i] = Put(@, name, v)]
PutTop(name, v) == PutAt(Len(scopes), name, v)

---------------------------------------------------------------------------
AtTop == stack = <<>>
InNamespace == stack # <<>> /\ stack[Len(stack)].kind = "namespace"
CanVisit == ~InNamespace
Push(kind, what, left) ==
  /\ Len(stack) < MaxStack
  /\ stack' = Append(stack, [kind |-> kind, what |-> what, left |-> left,
                             ns |-> ns, ctx |-> ctx, target |-> target])
Top == stack[Len(stack)]
Leaving(kind) == stack # <<>> /\ Top.kind = kind
Popped(s) == SubSeq(s, 1, Len(s) - 1)

(* import ... as alias: the context arrives in the globals.                *)
Import(alias, c) ==
  /\ AtTop
  /\ globals' = [globals EXCEPT ![ctx] = Put(@, <<alias>>, c)]
  /\ UNCHANGED <<place, scopes, functions, props, stack>>

EnterNamespace(n) ==
  /\ AtTop
  /\ Push("namespace", <<n>>, 0)
  /\ ns' = ns \o <<n>>
  /\ UNCHANGED <<ctx, target, scopes, globals, functions, props>>

DefineFunction(f) ==
  /\ InNamespace
  /\ functions' = [functions EXCEPT ![ctx] = @ \cup {ns \o <<f>>}]
  /\ UNCHANGED <<place, scopes, globals, props, stack>>

LeaveNamespaceOpen ==
  /\ Leaving("namespace")
  /\ stack' = Popped(stack)
  /\ UNCHANGED <<place, scopes, globals, functions, props>>
LeaveNamespace ==
  /\ Leaving("namespace")
  /\ ns' = Top.ns
  /\ stack' = Popped(stack)
  /\ UNCHANGED <<ctx, target, scopes, globals, functions, props>>

EnterTarget(t) ==
  /\ AtTop
  /\ Push("target", t, 0)
  /\ target' = t
  /\ scopes' = Append(scopes, Empty)
  /\ UNCHANGED <<ns, ctx, globals, functions, props>>

LeaveTarget ==
  /\ Leaving("target")
  /\ target' = Top.target
  /\ scopes' = Popped(scopes)
  /\ stack' = Popped(stack)
  /\ UNCHANGED <<ns, ctx, globals, functions, props>>

---------------------------------------------------------------------------
(* `x = v;` and `int x = v;` are both variable_decl: the variable goes to  *)
(* the top scope, and to the current target as well.                       *)
Declare(x, v) ==
  /\ scopes' = PutTop(Prefixed(<<x>>), v)
  /\ props' = IF target = NoTarget THEN props
              ELSE [props EXCEPT ![target] = Put(@, Prefixed(<<x>>), v)]
  /\ UNCHANGED <<place, globals, functions, stack>>

(* visitAssignment, left with `n:x = v;` and `x += v;`: in a target it     *)
(* writes the property only.                                               *)
AssignProperty(name, v) ==
  /\ CanVisit /\ target # NoTarget /\ Len(name) > 1
  /\ props' = [props EXCEPT ![target] = Put(@, name, v)]
  /\ UNCHANGED <<place, scopes, globals, functions, stack>>

(* Nothing can be added to a ProjectContext; a property that is not there  *)
(* counts as the null value.  v is the result.                             *)
AddToProperty(name, v) ==
  /\ CanVisit /\ target # NoTarget
  /\ LET key == Prefixed(name)
     IN /\ key \in DOMAIN props[target] => props[target][key] \in Plain
        /\ props' = [props EXCEPT ![target] = Put(@, key, v)]
  /\ UNCHANGED <<place, scopes, globals, functions, stack>>

(* setVar: the nearest variable of just this name, or a new one on top.    *)
AssignVariableGlobal(name, v) ==
  /\ CanVisit /\ target = NoTarget /\ Len(name) > 1
  /\ scopes' = IF Holding(<<name>>) # {} THEN PutAt(Nearest(<<name>>), name, v)
               ELSE PutAt(1, name, v)
  /\ UNCHANGED <<place, globals, functions, props, stack>>
AssignVariable(name, v) ==
  /\ CanVisit /\ target = NoTarget /\ Len(name) > 1
  /\ scopes' = IF Holding(<<name>>) # {} THEN PutAt(Nearest(<<name>>), name, v)
               ELSE PutTop(name, v)
  /\ UNCHANGED <<place, globals, functions, props, stack>>

(* getVar: the nearest variable one of the candidates names.  It is an     *)
(* error if there is none.                                                 *)
AddInTargetToo(name, v) ==
  /\ CanVisit
  /\ LET names == Candidates(Prefixed(name))
         i == Nearest(names)
     IN /\ Holding(names) # {}
        /\ scopes[i][FirstIn(scopes[i], names)] \in Plain
        /\ scopes' = PutAt(i, FirstIn(scopes[i], names), v)
  /\ UNCHANGED <<place, globals, functions, props, stack>>
AddToVariable(name, v) ==
  /\ CanVisit /\ target = NoTarget
  /\ LET names == Candidates(Prefixed(name))
         i == Nearest(names)
     IN /\ Holding(names) # {}
        /\ scopes[i][FirstIn(scopes[i], names)] \in Plain
        /\ scopes' = PutAt(i, FirstIn(scopes[i], names), v)
  /\ UNCHANGED <<place, globals, functions, props, stack>>

---------------------------------------------------------------------------
(* visitFunctionCall up to the body.  The callee sees the callers' scopes. *)
Call(q, params) ==
  /\ \E f \in Callee(q) :
       /\ Push("call", f, 0)
       /\ ctx' = f.ctx
       /\ ns' = SubSeq(f.name, 1, Len(f.name) - 1)
  /\ scopes' = Append(scopes, params)
  /\ UNCHANGED <<target, globals, functions, props>>

(* The end of the body, and of the loops a return jumps out of: the scopes *)
(* of the loops go first, then the call restores what it saved.            *)
Calls == {k \in DOMAIN stack : stack[k].kind = "call"}
LeaveCallOneScope ==
  /\ \E k \in Calls :
       /\ \A j \in Calls : j <= k
       /\ ns' = stack[k].ns
       /\ ctx' = stack[k].ctx
       /\ scopes' = Popped(scopes)
       /\ stack' = SubSeq(stack, 1, k - 1)
  /\ UNCHANGED <<target, globals, functions, props>>
LeaveCall ==
  /\ \E k \in Calls :
       /\ \A j \in Calls : j <= k
       /\ ns' = stack[k].ns
       /\ ctx' = stack[k].ctx
       /\ scopes' = SubSeq(scopes, 1, Len(scopes) - (Len(stack) - k + 1))
       /\ stack' = SubSeq(stack, 1, k - 1)
  /\ UNCHANGED <<target, globals, functions, props>>

(* visitFor_stmt: a scope of its own for each element.                     *)
EnterLoop(n, x, v) ==
  /\ CanVisit
  /\ Push("for", <<x>>, n - 1)
  /\ scopes' = Append(scopes, Put(Empty, <<x>>, v))
  /\ UNCHANGED <<place, globals, functions, props>>

NextElement(v) ==
  /\ Leaving("for") /\ Top.left > 0
  /\ scopes' = Append(Popped(scopes), Put(Empty, Top.what, v))
  /\ stack' = [stack EXCEPT ![Len(stack)].left = @ - 1]
  /\ UNCHANGED <<place, globals, functions, props>>

LeaveLoop ==
  /\ Leaving("for") /\ Top.left = 0
  /\ scopes' = Popped(scopes)
  /\ stack' = Popped(stack)
  /\ UNCHANGED <<place, globals, functions, props>>

---------------------------------------------------------------------------
(* What a script can write.                                                *)
SimpleNames == {<<x>> : x \in Ids}
QualifiedNames == {<<n, x>> : n \in Namespaces, x \in Ids}
FunctionNames == {<<n, f>> : n \in Namespaces, f \in Functions}
CallNames == FunctionNames
             \cup {<<x, n, f>> : x \in Ids, n \in Namespaces, f \in Functions}
Params == {Empty} \cup {Put(Empty, name, v) : name \in SimpleNames, v \in Plain}

Next ==
  \/ \E x \in Ids, c \in Contexts \ {Home} : Import(x, c)
  \/ \E n \in Namespaces : EnterNamespace(n)
  \/ \E f \in Functions : DefineFunction(f)
  \/ LeaveNamespace
  \/ \E t \in Targets : EnterTarget(t)
  \/ LeaveTarget
  \/ \E x \in Ids, v \in Assigned : Declare(x, v)
  \/ \E name \in QualifiedNames, v \in Plain : AssignProperty(name, v) \/ AssignVariable(name, v)
  \/ \E name \in SimpleNames \cup QualifiedNames, v \in Plain :
       AddToProperty(name, v) \/ AddToVariable(name, v)
  \/ \E q \in CallNames, params \in Params : Call(q, params)
  \/ LeaveCall
  \/ \E n \in 1..MaxLoop, x \in Ids, v \in Plain : EnterLoop(n, x, v)
  \/ \E v \in Plain : NextElement(v)
  \/ LeaveLoop

Spec == Init /\ [][Next]_vars

---------------------------------------------------------------------------
VariableNames == SimpleNames \cup QualifiedNames
Tables == UNION {[names -> Values] : names \in SUBSET VariableNames}

NamespaceNames == {<<n>> : n \in Namespaces}

(* The variables keep their types.                                         *)
TypeOK ==
  /\ ns \in {<<>>} \cup NamespaceNames
  /\ ctx \in Contexts /\ target \in Targets \cup {NoTarget}
  /\ scopes \in Seq(Tables)
  /\ DOMAIN globals = Contexts
  /\ \A c \in Contexts : DOMAIN globals[c] \subseteq SimpleNames \cup DOMAIN Predefined
  /\ functions \in [Contexts -> SUBSET FunctionNames]
  /\ props \in [Targets -> Tables]
  /\ Len(stack) <= MaxStack

(* Of the first k blocks of s, the last one of one of these kinds, and     *)
(* where the interpreter has to be when just these k are open.             *)
Latest(s, k, kinds) == {j \in 1..k : /\ s[j].kind \in kinds
                                     /\ \A i \in (j + 1)..k : s[i].kind \notin kinds}
NamespaceIn(block) ==
  IF block.kind = "namespace" THEN block.what
  ELSE SubSeq(block.what.name, 1, Len(block.what.name) - 1)
NamespaceIs(s, k, name) ==
  LET blocks == Latest(s, k, {"namespace", "call"})
  IN (blocks = {} => name = <<>>) /\ \A j \in blocks : name = NamespaceIn(s[j])
ContextIs(s, k, c) ==
  LET calls == Latest(s, k, {"call"})
  IN (calls = {} => c = Home) /\ \A j \in calls : c = s[j].what.ctx
TargetIs(s, k, t) ==
  LET open == Latest(s, k, {"target"})
  IN (open = {} => t = NoTarget) /\ \A j \in open : t = s[j].what

(* However the blocks, calls, loops and returns have been nested, the      *)
(* interpreter is where its open blocks say: in the namespace and context  *)
(* of the innermost function (or in the namespace block it is in), at the  *)
(* target whose block is open, and with one scope for the file, one for    *)
(* each open target, call and loop, and none left over.                    *)
PlaceRight ==
  /\ NamespaceIs(stack, Len(stack), ns)
  /\ ContextIs(stack, Len(stack), ctx)
  /\ TargetIs(stack, Len(stack), target)
  /\ Len(scopes) = 1 + Cardinality({k \in DOMAIN stack : stack[k].kind # "namespace"})

(* A body cannot make or remove a variable of the code around it: what a   *)
(* call or a loop changes in an outer scope is the value of a variable     *)
(* that is there.                                                          *)
OuterVariablesStay ==
  [][\A i \in 1..(Len(scopes) - 1) :
       i <= Len(scopes') => DOMAIN scopes'[i] = DOMAIN scopes[i]]_vars

(* A target is isolated ("Zero State Leakage" in the README): while its    *)
(* block runs, in the functions it calls too, nothing outside it changes,  *)
(* no global variable and no property of another target.                   *)
TargetIsolated ==
  [][/\ \A t \in Targets : t # target => props'[t] = props[t]
     /\ target # NoTarget =>
          \A i \in 1..(Len(scopes) - 1) : i <= Len(scopes') => scopes'[i] = scopes[i]]_vars

Last(s) == s[Len(s)]
Calling == Len(stack') > Len(stack) /\ Last(stack').kind = "call"

(* A parameter hides what has its name outside the function, the variables *)
(* of the function's own namespace included.                               *)
ParameterIsRead ==
  [][Calling => \A name \in DOMAIN Last(scopes') : Resolve(name)' = Last(scopes')[name]]_vars

---------------------------------------------------------------------------
(* Two comments in visitVariable_decl that the code does not live up to.   *)

(* "If we are inside a function (scopes > 1), this is a local variable."   *)
LocalsStayLocal ==
  [][\A x \in Ids, v \in Assigned : Declare(x, v) /\ Calls # {} => props' = props]_vars

(* "We save to the current scope (topmost on the stack).  It is from here  *)
(* that resolveVariable will take it!"                                     *)
DeclaredIsRead ==
  [][\A x \in Ids, v \in Assigned : Declare(x, v) => Resolve(<<x>>)' = v]_vars
=============================================================================

------------------------------- MODULE Trees -------------------------------
(***************************************************************************)
(* Syntax trees for the model-checking modules, as the parser's actions    *)
(* build them.                                                             *)
(***************************************************************************)
EXTENDS Compiler

Expr(kids)   == [t |-> "EXPR", kids |-> kids, throws |-> FALSE]
Risky(kids)  == [t |-> "EXPR", kids |-> kids, throws |-> TRUE]
Const        == Expr(<< >>)
Get(x)       == [t |-> "GETVARIABLE", kids |-> << >>, name |-> x]
Tuple(xs)    == [t |-> "TUPLE", kids |-> [i \in DOMAIN xs |-> Get(xs[i])]]
My(x)        == [t |-> "MY", kids |-> << Get(x) >>]
MyTuple(xs)  == [t |-> "MY", kids |-> << Tuple(xs) >>]
Set(l, r)    == [t |-> "SETVARIABLE", kids |-> << l, r >>]
List(ss)     == [t |-> "STMTS_LIST", kids |-> ss]
Block(ss)    == [t |-> "BLOCK", kids |-> << List(ss) >>]
If(c, a, b)  == [t |-> "IF", kids |-> << c, a, b >>]
While(c, b)  == [t |-> "WHILE", kids |-> << c, b >>]
For(i, c, p, b) == [t |-> "FOR", kids |-> << i, c, p, b >>]
Foreach(s, x, b) == [t |-> "FOREACH", kids |-> << s, My(x), b >>, throws |-> FALSE]
LastStmt     == [t |-> "LAST", kids |-> << >>]
Return(es)   == [t |-> "RETURN", kids |-> es]
Try(b)       == [t |-> "TRY", kids |-> << b >>]
Die(e)       == [t |-> "DIE", kids |-> << e >>]
Class(b)     == [t |-> "CLASS", kids |-> << b >>]
And(l, r)    == [t |-> "LOGICAL_AND", kids |-> << l, r >>]
Or(l, r)     == [t |-> "LOGICAL_OR", kids |-> << l, r >>]
Call(f, as)  == [t |-> "FUNCALL", kids |-> as, object |-> Void, fns |-> {f},
                 spread |-> {}, throws |-> FALSE]
CallTuple(f, a, ns) == [t |-> "FUNCALL", kids |-> << a >>, object |-> Void,
                        fns |-> {f}, spread |-> ns, throws |-> FALSE]
Unknown      == [t |-> "FUNCALL", kids |-> << >>, object |-> Void, fns |-> {},
                 spread |-> {}, throws |-> TRUE]
Method(o, f, as) == [t |-> "METHOD_CALL", kids |-> as, object |-> o, fns |-> {f},
                     throws |-> FALSE]
CodeCall(o, f, as) == [t |-> "CODE_CALL", kids |-> as, object |-> o, fns |-> {f}]
NativeFn(as, cbs, n, fs, th) ==
  [t |-> "NATIVE", kids |-> as, object |-> Void, callbacks |-> cbs, cbargs |-> n,
   files |-> fs, throws |-> th]
NativeMethod(o, as, cbs, n, th) ==
  [t |-> "NATIVE", kids |-> as, object |-> o, callbacks |-> cbs, cbargs |-> n,
   files |-> {}, throws |-> th]
Eval(f)      == NativeFn(<< Const >>, {}, 0, {f}, TRUE)
Map(o, f)    == NativeMethod(o, << Const >>, {f}, 1, FALSE)
Use(f)       == [t |-> "USE", kids |-> << Const, Const >>, callbacks |-> {},
                 cbargs |-> 0, files |-> {f}, throws |-> TRUE]
Sub(f, ps, b) == [t |-> "FUNCDEF", name |-> f, have_params |-> TRUE,
                  params |-> Params(ps), kids |-> << b >>]
SubDefault(f, ps, b) == [t |-> "FUNCDEF", name |-> f, have_params |-> TRUE,
                         params |-> ps, kids |-> << b >>]
SubAny(f, b) == [t |-> "FUNCDEF", name |-> f, have_params |-> FALSE,
                 params |-> << >>, kids |-> << b >>]
Lambda(f, ps, b) == [t |-> "LAMBDA", name |-> f, params |-> Params(ps),
                     kids |-> << b >>]
RECURSIVE Stmts(_)
Stmts(ss) == IF Len(ss) = 1 THEN ss[1]
             ELSE [t |-> "STMTS", kids |-> << Stmts(Front(ss)), Last(ss) >>]
File(ss)  == [t |-> "ROOT", kids |-> << Stmts(ss) >>]
=============================================================================

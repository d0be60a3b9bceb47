SPECIFICATION Spec
CONSTANTS
  A = A B = B C = C D = D r1 = r1 r2 = r2
  a1 = a1 a2 = a2 b1 = b1 b2 = b2 c1 = c1
  qa0 = qa0 qa1 = qa1 qb1 = qb1 qb2 = qb2 qb3 = qb3 qb4 = qb4
  qc1 = qc1 qd = qd
  Main = Main None = None QueryClass <- MCQueryClass
  Worker = {w1, w2}
  Class = {A, B, D} Object = {a1, b1, b2} Query = {qa1, qb1, qb2, qb3, qb4, qd} Rule = {r1, r2}
  Lines <- WideLines Apply <- WideApply Answers <- WideAnswers
  StartClass = A StartObjects = {a1} StartQueries = {qd}
  HasStatus = {} DefaultLimit = 1
  MaxDepth = 1 QueryLimit <- Unset
SYMMETRY Workers
INVARIANTS
  LimitOvershoot

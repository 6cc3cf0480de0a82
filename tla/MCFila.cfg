\* Stops, stalls and errors at any step; with fair workers and time, every job ends.
SPECIFICATION SpecJusta
CONSTANTS
    p1 = p1  p2 = p2  j1 = j1  j2 = j2  u1 = u1  u2 = u2  u3 = u3
    Nenhuma = Nenhuma
    Jobs = {j1, j2}
    Processos = {p1, p2}
    Reservas = {u1, u2, u3}
    SemHandler = {j2}
    Repetiveis = {j1}
    Automacoes = {j1}
    MaxTentativas = 2
    Rodada = 2
INVARIANTS FalhaAvisada
PROPERTIES TodoJobTermina SoODonoDecide FinalNaoVolta ImplementaFila

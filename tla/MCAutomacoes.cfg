\* Automations of two companies on the abstract queue: processes poll by pages of one, run, stop
\* and lose a reservation.
SPECIFICATION SpecJusta
CONSTANTS
    a1 = a1  a2 = a2  e1 = e1  e2 = e2  w1 = w1  w2 = w2
    Nenhuma = Nenhuma
    Ids = {a1, a2}
    Empresas = {e1, e2}
    EmpresaDe <- MCEmpresaDe
    Processos = {w1, w2}
    Trabalhadores = {w1}
    Limite = 1
    Intervalo = 1
    MaxHora = 1
    MaxTentativas = 2
    MaxEventos = 2
PROPERTIES SoOcorrenciaMarcada RodaOuAvisa
\* Once nothing is due and nobody saves, the instance is idle.
CHECK_DEADLOCK FALSE

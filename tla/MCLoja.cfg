\* A sale, its refund and two calls on an appointment, two products with one unit each.
SPECIFICATION Spec
CONSTANTS
    c1 = c1  a1 = a1  s1 = s1  r1 = r1  e1 = e1  t1 = t1  t2 = t2
    Central = Central  Livre = Livre  Nenhum = Nenhum
    Produtos <- MCProdutos
    Filiais = {}
    Clientes = {c1}
    Cupons = {}
    Agendamentos = {a1}
    Transacoes <- MCTransacoes
    SaldoInicial <- MCSaldoInicial
    MaxManual = 1
    ClienteDe <- MCClienteDe
    DataDe <- MCDataDe
    Servicos = {s1}
    ServicoDe <- MCServicoDe
    Insumos <- MCInsumos
    Passados = {a1}
    Requisicoes = {r1}
    Estornos = {e1}
    Pedidos <- MCPedidos
    Limites = {}
    UsoMaximo = 1
    Chamadas = {t1, t2}
    Operacoes <- MCOperacoes
INVARIANTS EstoqueNaoNegativo Conservacao ConsumoUmaVez
SYMMETRY Simetria
CHECK_DEADLOCK FALSE

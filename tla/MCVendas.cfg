\* Two sales and two refunds, one unit of stock, one use of the coupon.
SPECIFICATION Spec
CONSTANTS
    f1 = f1  c1 = c1  k1 = k1  cup1 = cup1  r1 = r1  r2 = r2  e1 = e1  e2 = e2
    Central = Central  Livre = Livre  Nenhum = Nenhum
    Produtos <- MCProdutos
    Filiais = {f1}
    Clientes = {c1}
    Cupons = {cup1}
    Agendamentos = {}
    Transacoes <- MCTransacoes
    SaldoInicial <- MCSaldoInicial
    MaxManual = 0
    ClienteDe <- MCVazio
    DataDe <- MCVazio
    Servicos = {}
    ServicoDe <- MCVazio
    Insumos <- MCVazio
    Passados = {}
    Requisicoes = {r1, r2}
    Estornos = {e1, e2}
    Pedidos <- MCPedidos
    Limites = {1, 2}
    UsoMaximo = 1
    Chamadas = {}
    Operacoes = {}
INVARIANTS Conservacao CupomContaVendas GastoConfere UmaVendaPorChave
PROPERTIES RepeticaoRecupera
SYMMETRY Simetria
CHECK_DEADLOCK FALSE

\* Payments, reversals, cancellation and refunds of three accounts.
SPECIFICATION Spec
CONSTANTS
    prazo = prazo  vista = vista  luz = luz  k1 = k1  k2 = k2
    t1 = t1  t2 = t2  t3 = t3
    Empresa = Empresa  Livre = Livre  Nenhum = Nenhum
    Contas = {prazo, vista, luz}
    DeVenda = {prazo, vista}
    Recebidas = {vista}
    Despesas = {luz}
    Valor <- MCValor
    Chaves = {k1, k2}
    Chamadas = {t1, t2, t3}
    Pedidos <- MCPedidos
    Horizonte = 1
INVARIANTS PagoConfere ContaCoerente RepeticaoRecupera
PROPERTIES CaixaFechado
SYMMETRY Simetria
CHECK_DEADLOCK FALSE
